---------------------------- MODULE Spec2Model ----------------------------
(***************************************************************************)
(* Persistence, snapshot and synchronisation core of the offline finance   *)
(* app (src/unnamed/part_000).                                             *)
(*                                                                         *)
(* Conventions                                                             *)
(*   - an optional JS value (null / undefined / absent key) is a sequence: *)
(*     <<>> when absent, <<v>> when present;                               *)
(*   - an ISO timestamp string is a record [kind, ms]: kind "iso" carries  *)
(*     the millisecond it parses to, "absent" is null/undefined, "empty"   *)
(*     the empty string and "garbage" a non-empty string Date cannot parse;*)
(*   - a collection of a state document is [kind, items]: kind "array"     *)
(*     carries the items, "missing" is an absent key and "other" a value   *)
(*     that is not an array;                                               *)
(*   - IndexedDB keys are separate variables (kvState, kvMeta, kvSync,     *)
(*     kvSnapIndex, kvSnaps); a put stores a structured clone, which for   *)
(*     the JSON-shaped documents of the app is the value itself.           *)
(***************************************************************************)
EXTENDS Integers, Sequences, FiniteSets, TLC

VARIABLES
  state,        \* init(): let state -- the live in-memory domain state
  kvState,      \* IndexedDB 'state' key (optional document)
  kvMeta,       \* IndexedDB 'meta' key, as getMeta() reads it ({} when absent)
  kvSync,       \* IndexedDB 'syncConfig' key, as getSyncConfig() reads it
  kvSnapIndex,  \* IndexedDB 'snapshotIndex' key (sequence of {id, at, reason})
  kvSnaps,      \* IndexedDB 'snapshot:<id>' keys (function id -> body)
  legacyRaw,    \* localStorage['ms_finanzas_offline_v1'] (optional raw text)
  legacyBillar, \* localStorage 'productos', 'ventas', 'mesasActivas' (raw values)
  remote,       \* the WebDAV file behind cfg.url (optional document)
  clock,        \* Date.now(), in model ticks
  tz,           \* offset of the device's local time from UTC, in ticks
  status,       \* #syncStatus text
  phase,        \* position of init(): "boot" before the auto-sync block, then "ready"
                \* ("failed" if init rejected)
  op,           \* history: the last handler run, its inputs and what it did
  pre,          \* history: the local store and the remote before that handler
  created,      \* history: the snapshots createSnapshot returned, oldest first
  dailyCalls,   \* history: the ensureDailySnapshot calls made, [at, nonEmpty] each
  loaded,       \* history: result of the last loadState() (<<>>: not called)
  lastSaved,    \* history: the state given to the last completed saveState
  drawn,        \* number of identifiers randomId() has returned so far
  rows,         \* #tablesTbody: ids of the sessions whose row is on screen
  pending,      \* handlers suspended at an await, oldest first, each with what
                \* its continuation needs
  caches,       \* sw.js: the CacheStorage entry CACHE_NAME (request URL -> optional response)
  site,         \* the resources the network serves (URL -> version)
  event,        \* sw.js: the last fetch event and what answered it
  fnArgs,       \* arguments of the pure function under test
  fnRes         \* its results (<<>>: not applied yet)

vars == <<state, kvState, kvMeta, kvSync, kvSnapIndex, kvSnaps, legacyRaw, legacyBillar, remote,
          clock, tz, status, phase, op, pre, created, dailyCalls, loaded, lastSaved, drawn,
          rows, pending, caches, site, event, fnArgs, fnRes>>

-----------------------------------------------------------------------------
(* Bounds of the model *)

MaxClock == 1
MaxIso == 4

-----------------------------------------------------------------------------
(* Timestamps *)

Absent == [kind |-> "absent", ms |-> 0]
EmptyStr == [kind |-> "empty", ms |-> 0]
Garbage == [kind |-> "garbage", ms |-> 0]
Iso(t) == [kind |-> "iso", ms |-> t]

\* JS truthiness of a timestamp value: null, undefined and '' are falsy.
Truthy(ts) == ts.kind \in {"garbage", "iso"}

\* `x || null`
OrNull(ts) == IF Truthy(ts) THEN ts ELSE Absent

\* nowISO(): the current time as an ISO string, millisecond resolution.
nowISO(now) == Iso(now)

\* parseComparableIso: the Date of String(iso || ''), or null when invalid.
parseComparableIso(iso) ==
  LET s == IF Truthy(iso) THEN iso ELSE EmptyStr
  IN IF s.kind = "iso" THEN <<s.ms>> ELSE <<>>

isoNewerThanOrEqual(a, b) ==
  LET da == parseComparableIso(a)
      db == parseComparableIso(b)
  IN IF da = <<>> /\ db = <<>> THEN FALSE
     ELSE IF da # <<>> /\ db = <<>> THEN TRUE
     ELSE IF da = <<>> /\ db # <<>> THEN FALSE
     ELSE da[1] >= db[1]

isoNewerThan(a, b) ==
  LET da == parseComparableIso(a)
      db == parseComparableIso(b)
  IN IF da = <<>> /\ db = <<>> THEN FALSE
     ELSE IF da # <<>> /\ db = <<>> THEN TRUE
     ELSE IF da = <<>> /\ db # <<>> THEN FALSE
     ELSE da[1] > db[1]

-----------------------------------------------------------------------------
(* Domain state documents *)

Arr(s) == [kind |-> "array", items |-> s]
Missing == [kind |-> "missing", items |-> <<>>]
NotArray == [kind |-> "other", items |-> <<>>]

Ledger(p, s, e, t) == [products |-> Arr(p), sales |-> Arr(s), expenses |-> Arr(e), tables |-> Arr(t)]

emptyState == Ledger(<<>>, <<>>, <<>>, <<>>)

\* `!c?.length`: an absent key, or any value whose length is 0 or undefined.
NoLength(c) == c.kind # "array" \/ Len(c.items) = 0

isStateEmpty(s) ==
  NoLength(s.products) /\ NoLength(s.sales) /\ NoLength(s.expenses) /\ NoLength(s.tables)

isValidStateShapeAny(s) ==
  \/ s.products.kind = "array"
  \/ s.sales.kind = "array"
  \/ s.expenses.kind = "array"
  \/ s.tables.kind = "array"

isValidStateShape(s) ==
  /\ s.products.kind = "array"
  /\ s.sales.kind = "array"
  /\ s.expenses.kind = "array"
  /\ s.tables.kind = "array"

\* Domain states the UI can produce: items are record ids.
LocalStates == {emptyState,
                Ledger(<<1>>, <<>>, <<>>, <<>>),
                Ledger(<<1>>, <<7>>, <<>>, <<8>>)}

-----------------------------------------------------------------------------
(* Metadata record *)

EmptyMeta ==
  [deviceId |-> <<>>, stateUpdatedAt |-> Absent, stateUpdatedBy |-> <<>>,
   stateUpdatedSource |-> <<>>, lastSnapshotDay |-> <<>>,
   legacyBillarMigratedAt |-> <<>>, lastSyncPushAt |-> <<>>, lastSyncPullAt |-> <<>>]

NoOptions == [updatedAt |-> Absent, updatedBy |-> <<>>, source |-> <<>>]

\* randomId(): an identifier no earlier call returned.
randomId == "dev-" \o ToString(drawn)

\* 1 when randomId() was called to fill a missing deviceId, else 0.
Drew(metaBefore, metaAfter) ==
  IF metaBefore.deviceId = <<>> /\ metaAfter.deviceId # <<>> THEN 1 ELSE 0

\* saveState, lines 563-569: the metadata read-modify-write.
saveStateMetaNoStamp(meta, options, now) ==
  LET dev == IF meta.deviceId # <<>> THEN meta.deviceId ELSE <<randomId>>
  IN [meta EXCEPT !.deviceId = dev,
                  !.stateUpdatedBy = IF options.updatedBy # <<>> THEN options.updatedBy ELSE dev,
                  !.stateUpdatedSource = IF options.source # <<>> THEN options.source ELSE <<"local">>]

\* The metadata update writing a new record instead of the one it read.
saveStateMetaFresh(meta, options, now) ==
  LET dev == IF meta.deviceId # <<>> THEN meta.deviceId ELSE <<randomId>>
  IN [EmptyMeta EXCEPT !.deviceId = dev,
                       !.stateUpdatedAt = IF Truthy(options.updatedAt) THEN options.updatedAt ELSE nowISO(now),
                       !.stateUpdatedBy = IF options.updatedBy # <<>> THEN options.updatedBy ELSE dev,
                       !.stateUpdatedSource = IF options.source # <<>> THEN options.source ELSE <<"local">>]

saveStateMeta(meta, options, now) ==
  LET dev == IF meta.deviceId # <<>> THEN meta.deviceId ELSE <<randomId>>
  IN [meta EXCEPT !.deviceId = dev,
                  !.stateUpdatedAt = IF Truthy(options.updatedAt) THEN options.updatedAt ELSE nowISO(now),
                  !.stateUpdatedBy = IF options.updatedBy # <<>> THEN options.updatedBy ELSE dev,
                  !.stateUpdatedSource = IF options.source # <<>> THEN options.source ELSE <<"local">>]

\* saveState, line 560: the document written under the 'state' key.
saveStateDocDropped(doc, s) == doc

saveStateDoc(doc, s) == <<s>>

\* Ways a storage request of saveState can fail.  idbGet and idbSet settle on
\* the request's success or error event: the write of the 'state' key rejects
\* ("putStateReject"), or the read ("getMeta") or the write ("putMeta") of the
\* 'meta' key rejects inside the try block.
SaveFaults == {"none", "putStateReject", "getMeta", "putMeta"}

\* saveState without the try/catch around the metadata update.
saveStateRunStrict(s, options, f, doc, meta, now) ==
  IF f = "putStateReject" THEN [kvState |-> doc, kvMeta |-> meta, threw |-> TRUE]
  ELSE IF f \in {"getMeta", "putMeta"}
    THEN [kvState |-> saveStateDoc(doc, s), kvMeta |-> meta, threw |-> TRUE]
  ELSE [kvState |-> saveStateDoc(doc, s),
        kvMeta |-> saveStateMeta(meta, options, now), threw |-> FALSE]

\* saveState(s, options) under a fault: the 'state' key, the metadata record,
\* and whether the promise rejected.
saveStateRun(s, options, f, doc, meta, now) ==
  IF f = "putStateReject" THEN [kvState |-> doc, kvMeta |-> meta, threw |-> TRUE]
  ELSE IF f \in {"getMeta", "putMeta"}
    THEN [kvState |-> saveStateDoc(doc, s), kvMeta |-> meta, threw |-> FALSE]
  ELSE [kvState |-> saveStateDoc(doc, s),
        kvMeta |-> saveStateMeta(meta, options, now), threw |-> FALSE]

-----------------------------------------------------------------------------
(* loadState *)

\* The value loadState returns (<<>> is null) for a store and a legacy key.
loadStateResultLegacyFirst(doc, raw) ==
  IF raw # <<>> /\ raw[1].parsable THEN <<raw[1].value>>
  ELSE doc

loadStateResult(doc, raw) ==
  IF doc # <<>> THEN doc
  ELSE IF raw = <<>> THEN <<>>
  ELSE IF raw[1].parsable THEN <<raw[1].value>>
  ELSE <<>>

\* The 'state' key after loadState: the parsed legacy document is persisted.
loadStateDoc(doc, raw) ==
  IF doc = <<>> /\ raw # <<>> /\ raw[1].parsable THEN <<raw[1].value>> ELSE doc

\* The legacy key after loadState: removed once persisted into IndexedDB.
loadStateLegacy(doc, raw) ==
  IF doc = <<>> /\ raw # <<>> /\ raw[1].parsable THEN <<>> ELSE raw


-----------------------------------------------------------------------------
(* Values the history variables hold when no handler has run *)

NoOp == [name |-> "none", get |-> "none", online |-> FALSE, asked |-> FALSE,
         answer |-> FALSE, put |-> "none", putSent |-> FALSE, fault |-> "none",
         threw |-> FALSE, migrated |-> FALSE, id |-> <<>>, toast |-> "",
         qty |-> 0, file |-> <<>>, options |-> NoOptions]

NoPre == [state |-> emptyState, kvState |-> <<>>, kvMeta |-> EmptyMeta, remote |-> <<>>,
          nCreated |-> 0]

Before == [state |-> state, kvState |-> kvState, kvMeta |-> kvMeta, remote |-> remote,
           nCreated |-> Len(created)]

NoConfig == [url |-> "", auto |-> FALSE]

\* The three legacy keys when the older app never ran in this browser.
NoLegacy ==
  [products |-> [kind |-> "absent", items |-> <<>>],
   sales |-> [kind |-> "absent", items |-> <<>>],
   tables |-> [kind |-> "absent", items |-> <<>>], throws |-> FALSE]

IdleSync == remote = <<>> /\ status = "" /\ phase = "ready" /\ op = NoOp /\ pre = NoPre
IdleSnapshots ==
  kvSnapIndex = <<>> /\ kvSnaps = <<>> /\ created = <<>> /\ dailyCalls = <<>> /\ tz = 0
  /\ rows = {} /\ pending = <<>>
IdleRepo == loaded = <<>> /\ lastSaved = <<>>
\* No service worker is part of the run: nothing cached, served or intercepted.
NoCache == <<>>

NoSite == <<>>

NoEvent == [request |-> <<>>, network |-> "", intercepted |-> FALSE, source |-> "none", response |-> <<>>]

IdleWorker == caches = NoCache /\ site = NoSite /\ event = NoEvent

IdlePure == fnArgs = <<>> /\ fnRes = <<>> /\ IdleWorker

\* Time passes.
Tick ==
  /\ op = NoOp
  /\ clock < MaxClock
  /\ clock' = clock + 1
  /\ UNCHANGED <<state, kvState, kvMeta, kvSync, kvSnapIndex, kvSnaps, legacyRaw, remote,
                 tz, rows, pending, status, phase, op, pre, created, dailyCalls, loaded, lastSaved, drawn, 
                 legacyBillar, fnArgs, caches, site, event, fnRes>>

\* The handler has returned and the page waits for the next event: the record
\* kept of it in the history variables is dropped. No program variable changes.
Idle ==
  /\ op # NoOp
  /\ op' = NoOp
  /\ pre' = NoPre
  /\ UNCHANGED <<state, kvState, kvMeta, kvSync, kvSnapIndex, kvSnaps, legacyRaw, remote,
                 clock, tz, rows, pending, status, phase, created, dailyCalls, loaded, lastSaved, drawn, 
                 legacyBillar, fnArgs, caches, site, event, fnRes>>

-----------------------------------------------------------------------------
(* Timestamp comparison on its own: isoNewerThan applied to every pair *)

IsoInputs == {Absent, EmptyStr, Garbage} \cup {Iso(t) : t \in 0..MaxIso}

ApplyIsoNewerThan ==
  /\ fnRes = <<>>
  /\ fnRes' = <<isoNewerThan(fnArgs[1], fnArgs[2]), isoNewerThan(fnArgs[2], fnArgs[1])>>
  /\ UNCHANGED <<state, kvState, kvMeta, kvSync, kvSnapIndex, kvSnaps, legacyRaw, remote,
                 clock, tz, rows, pending, status, phase, op, pre, created, dailyCalls, loaded, lastSaved, drawn, 
                 legacyBillar, fnArgs, caches, site, event>>

InitPure ==
  /\ IdleWorker
  /\ fnArgs \in IsoInputs \X IsoInputs
  /\ fnRes = <<>>
  /\ state = emptyState /\ kvState = <<>> /\ kvMeta = EmptyMeta /\ kvSync = NoConfig
  /\ legacyRaw = <<>> /\ clock = 0 /\ drawn = 0 /\ legacyBillar = NoLegacy
  /\ IdleSync /\ IdleSnapshots /\ IdleRepo

NextPure == ApplyIsoNewerThan

SpecPure == InitPure /\ [][NextPure]_vars

-----------------------------------------------------------------------------
(* State repository: saveState and loadState against the store *)

LegacyTexts == {[parsable |-> TRUE, value |-> s] : s \in LocalStates}
                 \cup {[parsable |-> FALSE, value |-> emptyState]}

SaveSources == {<<>>, <<"init">>, <<"snapshot-restore">>}

\* The options callers pass: none, a source only (init, restore), or all three
\* fields (the pulls); an empty updatedAt string counts as absent.
SaveOptions ==
  {[NoOptions EXCEPT !.source = src] : src \in SaveSources}
    \cup {[updatedAt |-> EmptyStr, updatedBy |-> <<>>, source |-> <<"sync-pull">>],
          [updatedAt |-> Iso(0), updatedBy |-> <<"dev-B">>, source |-> <<"sync-pull">>]}

\* The metadata record of a device that has taken a daily snapshot, imported
\* the legacy data, pushed and pulled.
UsedMeta ==
  [EmptyMeta EXCEPT !.deviceId = <<"dev-A">>, !.lastSnapshotDay = <<0>>,
                    !.legacyBillarMigratedAt = <<0>>, !.lastSyncPushAt = <<0>>,
                    !.lastSyncPullAt = <<0>>]

\* saveState(s, options) for a state s the caller installed as the live state;
\* lastSaved is the state of the last call that completed.
SaveState ==
  \E s \in LocalStates, options \in SaveOptions, f \in SaveFaults :
    LET res == saveStateRun(s, options, f, kvState, kvMeta, clock)
    IN  /\ op = NoOp
        /\ state' = s
        /\ kvState' = res.kvState
        /\ kvMeta' = res.kvMeta
        /\ lastSaved' = IF res.threw THEN <<>> ELSE <<s>>
        /\ loaded' = <<>>
        /\ op' = [NoOp EXCEPT !.name = "save", !.fault = f, !.threw = res.threw,
                              !.options = options]
        /\ pre' = Before
        /\ drawn' = drawn + Drew(kvMeta, kvMeta')
        /\ UNCHANGED <<kvSync, kvSnapIndex, kvSnaps, legacyRaw, remote, clock, tz, rows, pending, status,
                       phase, created, dailyCalls, legacyBillar, fnArgs, caches, site, event, fnRes>>

\* loadState(): the 'state' key first, then the legacy localStorage key.
LoadState ==
  /\ loaded' = <<loadStateResult(kvState, legacyRaw)>>
  /\ kvState' = loadStateDoc(kvState, legacyRaw)
  /\ legacyRaw' = loadStateLegacy(kvState, legacyRaw)
  /\ UNCHANGED <<state, kvMeta, kvSync, kvSnapIndex, kvSnaps, remote, clock, tz, rows, pending, status,
                 phase, op, pre, created, dailyCalls, lastSaved, drawn, 
                 legacyBillar, fnArgs, caches, site, event, fnRes>>

InitRepo ==
  /\ state = emptyState
  /\ kvState \in {<<>>} \cup {<<s>> : s \in LocalStates}
  /\ kvMeta \in {EmptyMeta, UsedMeta}
  /\ kvSync = NoConfig
  /\ legacyRaw \in {<<>>} \cup {<<l>> : l \in LegacyTexts}
  /\ clock = 0 /\ drawn = 0 /\ legacyBillar = NoLegacy
  /\ IdleSync /\ IdleSnapshots /\ IdleRepo /\ IdlePure

NextRepo == SaveState \/ LoadState \/ Tick \/ Idle

SpecRepo == InitRepo /\ [][NextRepo]_vars

-----------------------------------------------------------------------------
(* Sync client: the remote document and the two requests *)

RemoteLedger == Ledger(<<2>>, <<3>>, <<>>, <<>>)

\* States of a remote document that fail the shape check.
BadShapes == {[RemoteLedger EXCEPT !.products = Missing],
              [RemoteLedger EXCEPT !.sales = Missing],
              [RemoteLedger EXCEPT !.expenses = Missing],
              [RemoteLedger EXCEPT !.tables = Missing],
              [RemoteLedger EXCEPT !.sales = NotArray]}

RemoteDoc(at, metaAt, by, st) ==
  [updatedAt |-> at, metaUpdatedAt |-> metaAt, updatedBy |-> by, state |-> st]

RemoteTimes == {Absent, Garbage} \cup {Iso(t) : t \in 0..MaxClock}

\* What another device, or the user, may have put behind the URL.
RemoteDocs ==
  {RemoteDoc(at, Absent, <<"dev-B">>, <<RemoteLedger>>) : at \in RemoteTimes}
    \cup {RemoteDoc(Iso(0), Absent, <<>>, <<RemoteLedger>>)}
    \cup {RemoteDoc(Absent, Iso(MaxClock), <<"dev-B">>, <<RemoteLedger>>)}
    \cup {RemoteDoc(Iso(MaxClock), Absent, <<"dev-B">>, <<b>>) : b \in BadShapes}
    \cup {RemoteDoc(Iso(MaxClock), Absent, <<"dev-B">>, <<>>)}

\* Outcomes of a request: a response with a success status and a JSON object body
\* (or 404 when the file is absent), fetch() rejecting, a non-2xx status other than
\* 404, a body that does not parse to an object.
GetOutcomes == {"ok", "network", "http", "body"}
PutOutcomes == {"ok", "network", "http"}

\* `Error: ${err?.message || err}` for each way a request fails.
errorStatus(outcome) ==
  CASE outcome = "network" -> "Error: Failed to fetch"
    [] outcome = "http" -> "Error: HTTP 500"
    [] OTHER -> "Error: Respuesta invalida"

\* fetchRemoteSnapshot: [err, doc], doc <<>> for a 404.
fetchRemoteSnapshotLenient(outcome, file) ==
  IF outcome = "network" THEN [err |-> TRUE, doc |-> <<>>]
  ELSE [err |-> FALSE, doc |-> file]

fetchRemoteSnapshotNo404(outcome, file) ==
  IF outcome = "ok" /\ file # <<>> THEN [err |-> FALSE, doc |-> file]
  ELSE [err |-> TRUE, doc |-> <<>>]

fetchRemoteSnapshot(outcome, file) ==
  IF outcome = "ok" THEN [err |-> FALSE, doc |-> file]
  ELSE [err |-> TRUE, doc |-> <<>>]

\* pushRemoteSnapshot: the file after the PUT, and whether it threw.
pushRemoteSnapshotSilent(outcome, file, payload) ==
  IF outcome = "ok" THEN [err |-> FALSE, file |-> <<payload>>]
  ELSE [err |-> FALSE, file |-> file]

pushRemoteSnapshot(outcome, file, payload) ==
  IF outcome = "ok" THEN [err |-> FALSE, file |-> <<payload>>]
  ELSE [err |-> TRUE, file |-> file]

\* ensureDeviceId: the metadata record it leaves.
ensureDeviceId(meta) ==
  IF meta.deviceId = <<>> THEN [meta EXCEPT !.deviceId = <<randomId>>] ELSE meta

\* btnPush, lines 1412-1415: the conflict check of a push.
pushRemoteUpdatedAt(doc) ==
  IF doc = <<>> THEN Absent
  ELSE IF Truthy(doc[1].updatedAt) THEN doc[1].updatedAt
  ELSE OrNull(doc[1].metaUpdatedAt)

pushNeedsConfirmLoose(remoteUpdatedAt, localUpdatedAt) ==
  Truthy(remoteUpdatedAt) /\ ~isoNewerThan(localUpdatedAt, remoteUpdatedAt)

pushNeedsConfirm(remoteUpdatedAt, localUpdatedAt) ==
  Truthy(remoteUpdatedAt) /\ isoNewerThan(remoteUpdatedAt, localUpdatedAt)

\* btnPull, lines 1469-1472: the conflict check of a pull.
pullNeedsConfirm(localUpdatedAt, remoteUpdatedAt) ==
  Truthy(localUpdatedAt) /\ isoNewerThan(localUpdatedAt, remoteUpdatedAt)

\* `if (!ok) { setStatus('Cancelado ...'); return; }`
declinedNever(needsConfirm, ok) == FALSE

declined(needsConfirm, ok) == needsConfirm /\ ~ok

\* The result of the push handler: the status text, the metadata record, the
\* remote file, and what was asked and sent.
pushRun(g, ok, p, cfg, live, meta, file, now) ==
  LET quiet == [status |-> status, kvMeta |-> meta, remote |-> file, get |-> "none",
                asked |-> FALSE, answer |-> FALSE, put |-> "none", putSent |-> FALSE]
      r == fetchRemoteSnapshot(g, file)
      localUpdatedAt == OrNull(meta.stateUpdatedAt)
      remoteUpdatedAt == pushRemoteUpdatedAt(r.doc)
      need == pushNeedsConfirm(remoteUpdatedAt, localUpdatedAt)
      meta1 == IF meta.deviceId # <<>> THEN meta ELSE ensureDeviceId(meta)
      payload == RemoteDoc(IF Truthy(localUpdatedAt) THEN localUpdatedAt ELSE nowISO(now),
                           Absent, meta1.deviceId, <<live>>)
      w == pushRemoteSnapshot(p, file, payload)
  IN IF cfg.url = "" THEN quiet
     ELSE IF r.err THEN [quiet EXCEPT !.status = errorStatus(g), !.get = g]
     ELSE IF declined(need, ok)
       THEN [quiet EXCEPT !.status = "Cancelado (remoto mas reciente)", !.get = g,
                          !.asked = TRUE, !.answer = FALSE]
     ELSE IF w.err
       THEN [quiet EXCEPT !.status = errorStatus(p), !.kvMeta = meta1, !.get = g,
                          !.asked = need, !.answer = need /\ ok, !.put = p, !.putSent = TRUE]
     ELSE [quiet EXCEPT !.status = "Subido OK", !.remote = w.file,
                        !.kvMeta = [meta1 EXCEPT !.lastSyncPushAt = <<now>>],
                        !.get = g, !.asked = need, !.answer = need /\ ok, !.put = p,
                        !.putSent = TRUE]

\* The result of the pull handler: the status text, the live state, the 'state'
\* key, the metadata record, and what was asked.
pullRun(g, ok, cfg, live, doc, meta, file, now) ==
  LET quiet == [status |-> status, state |-> live, kvState |-> doc, kvMeta |-> meta,
                get |-> "none", asked |-> FALSE, answer |-> FALSE]
      r == fetchRemoteSnapshot(g, file)
      rd == r.doc[1]
      localUpdatedAt == OrNull(meta.stateUpdatedAt)
      remoteUpdatedAt == OrNull(rd.updatedAt)
      need == pullNeedsConfirm(localUpdatedAt, remoteUpdatedAt)
      options == [updatedAt |-> IF Truthy(remoteUpdatedAt) THEN remoteUpdatedAt ELSE nowISO(now),
                  updatedBy |-> IF rd.updatedBy # <<>> THEN rd.updatedBy ELSE meta.deviceId,
                  source |-> <<"sync-pull">>]
      m2 == saveStateMeta(meta, options, now)
  IN IF cfg.url = "" THEN quiet
     ELSE IF r.err THEN [quiet EXCEPT !.status = errorStatus(g), !.get = g]
     ELSE IF r.doc = <<>> \/ rd.state = <<>>
       THEN [quiet EXCEPT !.status = "Sin datos remotos", !.get = g]
     ELSE IF ~isValidStateShape(rd.state[1])
       THEN [quiet EXCEPT !.status = "Error: El remoto no contiene la estructura esperada.",
                          !.get = g]
     ELSE IF declined(need, ok)
       THEN [quiet EXCEPT !.status = "Cancelado (local mas reciente)", !.get = g,
                          !.asked = TRUE, !.answer = FALSE]
     ELSE [quiet EXCEPT !.status = "Descargado OK", !.state = rd.state[1],
                        !.kvState = saveStateDoc(doc, rd.state[1]),
                        !.kvMeta = [m2 EXCEPT !.lastSyncPullAt = <<now>>],
                        !.get = g, !.asked = need, !.answer = need /\ ok]

\* init, line 1504: whether the startup auto-sync runs at all.
autoSyncRunsOffline(cfg, online) == cfg.auto /\ cfg.url # ""

autoSyncRuns(cfg, online) == cfg.auto /\ cfg.url # "" /\ online

\* Storage requests of the auto-sync block that can fail: the read of the sync
\* configuration, the read of the metadata record, and those of saveState.
AutoSyncFaults == {"getConfig", "getMeta0"} \cup SaveFaults

\* init, lines 1521-1523: the catch of the auto-sync block sets the idle status.
autoSyncCatchUncaught(online) == [status |-> "Auto-sync: revisando...", threw |-> TRUE]

autoSyncCatch(online) ==
  [status |-> IF online THEN "Listo (online)" ELSE "Listo (offline)", threw |-> FALSE]

\* The result of the auto-sync block of init.  f is the storage request that
\* fails if the block gets to it; `fault` is f when it did.
autoSyncRun(g, online, f, cfg, live, doc, meta, file, now) ==
  LET idle == IF online THEN "Listo (online)" ELSE "Listo (offline)"
      quiet == [status |-> idle, state |-> live, kvState |-> doc, kvMeta |-> meta,
                get |-> "none", fault |-> "none", threw |-> FALSE]
      caught == [quiet EXCEPT !.status = autoSyncCatch(online).status,
                              !.threw = autoSyncCatch(online).threw]
      r == fetchRemoteSnapshot(g, file)
      rd == r.doc[1]
      localUpdatedAt == OrNull(meta.stateUpdatedAt)
      remoteUpdatedAt == IF r.doc = <<>> THEN Absent ELSE OrNull(rd.updatedAt)
      options == [updatedAt |-> IF Truthy(remoteUpdatedAt) THEN remoteUpdatedAt ELSE nowISO(now),
                  updatedBy |-> IF rd.updatedBy # <<>> THEN rd.updatedBy ELSE meta.deviceId,
                  source |-> <<"sync-auto-pull">>]
      sf == IF f \in SaveFaults THEN f ELSE "none"
      saved == saveStateRun(rd.state[1], options, sf, doc, meta, now)
  IN IF f = "getConfig" THEN [caught EXCEPT !.fault = f]
     ELSE IF ~autoSyncRuns(cfg, online) THEN quiet
     ELSE IF r.err THEN [caught EXCEPT !.get = g]
     ELSE IF f = "getMeta0" THEN [caught EXCEPT !.get = g, !.fault = f]
     ELSE IF /\ r.doc # <<>>
             /\ rd.state # <<>>
             /\ isValidStateShape(rd.state[1])
             /\ isoNewerThan(remoteUpdatedAt, localUpdatedAt)
       THEN IF saved.threw
              THEN [caught EXCEPT !.state = rd.state[1], !.kvState = saved.kvState,
                                  !.kvMeta = saved.kvMeta, !.get = g, !.fault = sf]
              ELSE [quiet EXCEPT !.status = "Auto-sync: datos remotos aplicados",
                                 !.state = rd.state[1],
                                 !.kvState = saved.kvState,
                                 !.kvMeta = saved.kvMeta,
                                 !.get = g, !.fault = sf]
     ELSE [quiet EXCEPT !.status = "Auto-sync: sin cambios", !.get = g]

-----------------------------------------------------------------------------
(* Sync client: the handlers *)

\* The non-empty state the device holds before any pull.
SyncStates == {Ledger(<<1>>, <<7>>, <<>>, <<8>>)}

\* The auto-sync block that ends init (lines 1501-1524).
AutoSync ==
  \E g \in GetOutcomes, online \in BOOLEAN, f \in AutoSyncFaults :
    LET res == autoSyncRun(g, online, f, kvSync, state, kvState, kvMeta, remote, clock)
    IN /\ phase = "boot"
       /\ op = NoOp
       /\ phase' = IF res.threw THEN "failed" ELSE "ready"
       /\ status' = res.status
       /\ state' = res.state
       /\ kvState' = res.kvState
       /\ kvMeta' = res.kvMeta
       /\ op' = [NoOp EXCEPT !.name = "auto", !.get = res.get, !.online = online,
                             !.fault = res.fault, !.threw = res.threw]
       /\ pre' = Before
       /\ UNCHANGED <<kvSync, kvSnapIndex, kvSnaps, legacyRaw, remote, clock, tz, rows, pending, created, dailyCalls,
                      loaded, lastSaved, legacyBillar, fnArgs, caches, site, event, fnRes>>
       /\ drawn' = drawn + Drew(kvMeta, kvMeta')

\* btnSyncPush click (lines 1402-1445).
Push ==
  \E g \in GetOutcomes, ok \in BOOLEAN, p \in PutOutcomes :
    LET res == pushRun(g, ok, p, kvSync, state, kvMeta, remote, clock)
    IN /\ phase = "ready"
       /\ op = NoOp
       /\ status' = res.status
       /\ kvMeta' = res.kvMeta
       /\ remote' = res.remote
       /\ op' = [NoOp EXCEPT !.name = "push", !.get = res.get, !.asked = res.asked,
                             !.answer = res.answer, !.put = res.put, !.putSent = res.putSent]
       /\ pre' = Before
       /\ UNCHANGED <<state, kvState, kvSync, kvSnapIndex, kvSnaps, legacyRaw, clock, tz, rows, pending,
                      phase, created, dailyCalls, loaded, lastSaved, legacyBillar, fnArgs, caches, site, event, fnRes>>
       /\ drawn' = drawn + Drew(kvMeta, kvMeta')

\* btnSyncPull click (lines 1449-1498).
Pull ==
  \E g \in GetOutcomes, ok \in BOOLEAN :
    LET res == pullRun(g, ok, kvSync, state, kvState, kvMeta, remote, clock)
    IN /\ phase = "ready"
       /\ op = NoOp
       /\ status' = res.status
       /\ state' = res.state
       /\ kvState' = res.kvState
       /\ kvMeta' = res.kvMeta
       /\ op' = [NoOp EXCEPT !.name = "pull", !.get = res.get, !.asked = res.asked,
                             !.answer = res.answer]
       /\ pre' = Before
       /\ UNCHANGED <<kvSync, kvSnapIndex, kvSnaps, legacyRaw, remote, clock, tz, rows, pending, phase,
                      created, dailyCalls, loaded, lastSaved, legacyBillar, fnArgs, caches, site, event, fnRes>>
       /\ drawn' = drawn + Drew(kvMeta, kvMeta')

\* A local edit: a form handler changes the live state and saves it (an edit
\* that re-enters the same values is saved, and stamped, all the same).
LocalEdit ==
  \E s \in SyncStates :
    /\ phase = "ready"
    /\ op = NoOp
    /\ state' = s
    /\ kvState' = saveStateDoc(kvState, s)
    /\ kvMeta' = saveStateMeta(kvMeta, NoOptions, clock)
    /\ UNCHANGED <<kvSync, kvSnapIndex, kvSnaps, legacyRaw, remote, clock, tz, rows, pending, status,
                   phase, op, pre, created, dailyCalls, loaded, lastSaved, 
                   legacyBillar, fnArgs, caches, site, event, fnRes>>
    /\ drawn' = drawn + Drew(kvMeta, kvMeta')

\* Another device, or the user, replaces or removes the remote file.
RemoteChange ==
  \E d \in {<<>>} \cup {<<x>> : x \in RemoteDocs} :
    /\ op = NoOp
    /\ d # remote
    /\ remote' = d
    /\ UNCHANGED <<state, kvState, kvMeta, kvSync, kvSnapIndex, kvSnaps, legacyRaw, clock,
                   tz, rows, pending, status, phase, op, pre, created, dailyCalls, loaded, lastSaved, drawn, 
                   legacyBillar, fnArgs, caches, site, event, fnRes>>

\* The store when init reaches its auto-sync block: the state is loaded (or
\* seeded) and non-empty, the device id exists, and stateUpdatedAt is absent when
\* the state came from the legacy key and was never saved.
InitSync ==
  /\ state \in SyncStates
  /\ kvState = <<state>>
  /\ kvMeta \in {[EmptyMeta EXCEPT !.deviceId = <<"dev-A">>, !.lastSnapshotDay = <<0>>],
                 [EmptyMeta EXCEPT !.deviceId = <<"dev-A">>, !.lastSnapshotDay = <<0>>,
                                   !.stateUpdatedAt = Iso(0),
                                   !.stateUpdatedBy = <<"dev-A">>,
                                   !.stateUpdatedSource = <<"local">>]}
  /\ kvSync \in {[url |-> "", auto |-> TRUE],
                 [url |-> "https://dav/f.json", auto |-> FALSE],
                 [url |-> "https://dav/f.json", auto |-> TRUE]}
  /\ remote \in {<<>>} \cup {<<x>> : x \in RemoteDocs}
  /\ legacyRaw = <<>>
  /\ clock = 0 /\ drawn = 0 /\ legacyBillar = NoLegacy
  /\ status = ""
  /\ phase = "boot"
  /\ op = NoOp
  /\ pre = NoPre
  /\ IdleSnapshots /\ IdleRepo /\ IdlePure

NextSync == AutoSync \/ Push \/ Pull \/ LocalEdit \/ RemoteChange \/ Tick \/ Idle

SpecSync == InitSync /\ [][NextSync]_vars

-----------------------------------------------------------------------------
(* Claims *)

Parsable(ts) == ts.kind = "iso"

\* Both are timestamps and a is later than b.
StrictlyLater(a, b) == Parsable(a) /\ Parsable(b) /\ a.ms > b.ms

\* a is a timestamp, and b is none or an earlier one.
NewerOrOnlyOne(a, b) == Parsable(a) /\ (~Parsable(b) \/ a.ms > b.ms)

Collections == {"products", "sales", "expenses", "tables"}

AllArrays(s) == \A f \in Collections : s[f].kind = "array"

Unchanged == state = pre.state /\ kvState = pre.kvState /\ kvMeta = pre.kvMeta

ErrorStatuses == {"Error: Failed to fetch", "Error: HTTP 500", "Error: Respuesta invalida",
                  "Error: El remoto no contiene la estructura esperada."}

\* C1: a loadState() that follows a completed saveState(s), with no other write
\* to the 'state' key in between, returns s.
C1_SaveLoadRoundTrip ==
  (loaded # <<>> /\ lastSaved # <<>>) => loaded[1] = lastSaved

\* C1 witness: a state was saved while the legacy key still held another
\* document, and the load returned the saved one.
C1_Witness ==
  /\ loaded # <<>> /\ lastSaved # <<>> /\ legacyRaw # <<>>
  /\ legacyRaw[1].parsable
  /\ legacyRaw[1].value # lastSaved[1]
  /\ loaded[1] = lastSaved

\* C5: isoNewerThan(a, b) is false when neither parses, true when only a parses,
\* false when only b parses, and otherwise true exactly when a is later than b;
\* it never holds in both directions.
C5_IsoNewerThanTable ==
  fnRes # <<>> =>
    LET a == fnArgs[1]
        b == fnArgs[2]
    IN /\ (~Parsable(a) /\ ~Parsable(b)) => fnRes[1] = FALSE
       /\ (Parsable(a) /\ ~Parsable(b)) => fnRes[1] = TRUE
       /\ (~Parsable(a) /\ Parsable(b)) => fnRes[1] = FALSE
       /\ (Parsable(a) /\ Parsable(b)) => (fnRes[1] <=> a.ms > b.ms)
       /\ ~(fnRes[1] /\ fnRes[2])

\* C5 witness: a valid timestamp compared with an unparsable one.
C5_Witness ==
  /\ fnRes # <<>>
  /\ fnArgs[1].kind = "iso" /\ fnArgs[2].kind = "garbage"
  /\ fnRes = <<TRUE, FALSE>>

\* What the last handler saw: the remote document, its state, the timestamps.
RemoteSeen == pre.remote[1]
RemoteHasState == pre.remote # <<>> /\ RemoteSeen.state # <<>>
LocalT1 == pre.kvMeta.stateUpdatedAt
RemoteT2 == IF pre.remote = <<>> THEN Absent ELSE RemoteSeen.updatedAt

\* The push got as far as its conflict check: the GET returned (a document or 404).
PushCompared == op.name = "push" /\ op.get = "ok"

\* The pull got as far as its conflict check: the GET returned a document whose
\* state has the four collections.
PullCompared ==
  op.name = "pull" /\ op.get = "ok" /\ RemoteHasState /\ AllArrays(RemoteSeen.state[1])

\* C4 as stated: push asks iff T2 is strictly newer than T1, pull asks iff T1 is
\* strictly newer than T2, and nothing is asked when T1 = T2 or either is missing.
C4_Original ==
  /\ PushCompared => (op.asked <=> StrictlyLater(RemoteT2, LocalT1))
  /\ PullCompared => (op.asked <=> StrictlyLater(LocalT1, RemoteT2))

\* The remote timestamp a push compares: updatedAt, else meta.updatedAt.
RemoteT2Push ==
  IF pre.remote = <<>> THEN Absent
  ELSE IF RemoteSeen.updatedAt.kind \in {"absent", "empty"} THEN RemoteSeen.metaUpdatedAt
  ELSE RemoteSeen.updatedAt

\* C4 amended: push asks iff the remote timestamp parses and the local one is
\* missing, unparsable or strictly older; pull asks iff the local timestamp
\* parses and the remote one is missing, unparsable or strictly older; nothing
\* is asked when both are equal or both are missing.
C4_ConfirmIffNewerOrOnlyOne ==
  /\ PushCompared => (op.asked <=> NewerOrOnlyOne(RemoteT2Push, LocalT1))
  /\ PullCompared => (op.asked <=> NewerOrOnlyOne(LocalT1, RemoteT2))

\* C4 witness: a push asked because the local stateUpdatedAt is missing.
C4_Witness ==
  PushCompared /\ op.asked /\ LocalT1.kind = "absent" /\ Parsable(RemoteT2)

\* C6: a pull whose remote state lacks one of the four arrays ends with an error
\* and leaves the live state, the 'state' key and the metadata record as they were.
C6_PullRejectsBadShape ==
  (/\ op.name = "pull" /\ op.get = "ok" /\ RemoteHasState
   /\ ~AllArrays(RemoteSeen.state[1]))
    => (status = "Error: El remoto no contiene la estructura esperada." /\ Unchanged)

\* C6 witness: a pull was rejected for a remote state without `tables`.
C6_Witness ==
  /\ op.name = "pull" /\ op.get = "ok" /\ RemoteHasState
  /\ RemoteSeen.state[1].tables.kind = "missing"
  /\ status = "Error: El remoto no contiene la estructura esperada."

GetFailed == op.name \in {"push", "pull"} /\ op.get \in {"network", "http", "body"}
PutFailed == op.name = "push" /\ op.putSent /\ op.put \in {"network", "http"}

\* C7: when the GET or the PUT of a push, or the GET of a pull, fails, the status
\* is an error and the live state, the 'state' key and the metadata record
\* (lastSyncPushAt and lastSyncPullAt included) are as before the operation.
C7_FailedRequestChangesNothing ==
  (GetFailed \/ PutFailed) => (status \in ErrorStatuses /\ Unchanged)

\* C7 witness: the PUT of a push was answered with an error status.
C7_Witness == PutFailed /\ op.put = "http" /\ status = "Error: HTTP 500"

\* C8: a declined confirmation sends no PUT and leaves the remote (push), or
\* leaves the live state, the 'state' key and the metadata record (pull), as
\* they were, and the status says cancelled.
C8_DeclineChangesNothing ==
  (op.asked /\ ~op.answer) =>
    /\ op.name = "push" =>
         (~op.putSent /\ remote = pre.remote /\ Unchanged
          /\ status = "Cancelado (remoto mas reciente)")
    /\ op.name = "pull" =>
         (remote = pre.remote /\ Unchanged /\ status = "Cancelado (local mas reciente)")

\* C8 witness: the confirmation of a push over a newer remote was declined.
C8_Witness ==
  op.name = "push" /\ op.asked /\ ~op.answer /\ StrictlyLater(RemoteT2, LocalT1)

\* The pull went through: a document with a valid state came back and the
\* conflict check passed or was confirmed.
PullSucceeded == PullCompared /\ (~op.asked \/ op.answer)

AutoPullDue ==
  /\ kvSync.auto /\ kvSync.url # "" /\ op.online
  /\ op.get = "ok" /\ RemoteHasState /\ AllArrays(RemoteSeen.state[1])
  /\ NewerOrOnlyOne(RemoteT2, LocalT1)

MAX_SNAPSHOTS == 20

MaxSnapshotCalls == 22  \* createSnapshot calls explored by SpecTrim
MaxSameMs == 1          \* times two consecutive calls read the same millisecond
DayLen == 4             \* clock ticks per calendar day (one tick: six hours)
MaxDailyClock == 5      \* last clock reading of SpecDaily
MaxDailyCalls == 3      \* ensureDailySnapshot calls explored by SpecDaily

\* Offset of the device's local time from UTC, in clock ticks.
TzOffsets == {0 - 1, 0, 1}

\* A value that is the live state object itself, not a copy of it.
LiveObject == [kind |-> "live"]

\* The snapshot built without the copy: its state is the live object.
deepCloneShared(obj) == LiveObject

\* JSON.parse(JSON.stringify(obj)): every key of the document that holds a
\* value is rebuilt; a key that is missing stays missing.
deepClone(obj) == [f \in DOMAIN obj |-> [kind |-> obj[f].kind, items |-> obj[f].items]]

Snapshot(at, reason, s) == [id |-> at, at |-> at, reason |-> reason, state |-> deepClone(s)]

listSnapshots(idx) == idx

unshift(idx, snap) == <<[id |-> snap.id, at |-> snap.at, reason |-> snap.reason]>> \o idx

\* The index after the trim loop, and the ids whose body the loop deletes.
trimKept(idx) == IF Len(idx) > MAX_SNAPSHOTS THEN SubSeq(idx, 1, MAX_SNAPSHOTS) ELSE idx
trimRemoved(idx) == {idx[i].id : i \in (MAX_SNAPSHOTS + 1)..Len(idx)}

createSnapshotIndex(idx, snap) == trimKept(unshift(listSnapshots(idx), snap))

createSnapshotBodies(bodies, idx, snap) ==
  LET put == (snap.id :> snap) @@ bodies
      gone == trimRemoved(unshift(listSnapshots(idx), snap))
  IN  [k \in (DOMAIN put) \ gone |-> put[k]]

\* Number of consecutive createSnapshot calls that read the same clock value.
SameMs(calls) == Cardinality({i \in 1..(Len(calls) - 1) : calls[i].id = calls[i + 1].id})

\* Click on 'btnSnapshotNow': createSnapshot(state, 'manual').  The handler
\* returns within the millisecond it started in (d = 0) or later (d = 1).
SnapshotNow ==
  /\ Len(created) < MaxSnapshotCalls
  /\ \E d \in 0..1 :
       LET snap == Snapshot(nowISO(clock), "manual", state)
       IN  /\ d = 0 => SameMs(Append(created, snap)) < MaxSameMs
           /\ kvSnaps' = createSnapshotBodies(kvSnaps, kvSnapIndex, snap)
           /\ kvSnapIndex' = createSnapshotIndex(kvSnapIndex, snap)
           /\ created' = Append(created, snap)
           /\ clock' = clock + d
  /\ UNCHANGED <<state, kvState, kvMeta, kvSync, legacyRaw, remote, tz, rows, pending, status, phase,
                 op, pre, dailyCalls, loaded, lastSaved, drawn, legacyBillar, fnArgs, caches, site, event, fnRes>>

\* Click on a row of the snapshot list: the body stored under the entry's id
\* is read (idbGet); an entry without a body cannot be restored or downloaded.
Retrievable(id) == id \in DOMAIN kvSnaps

InitTrim ==
  /\ state = Ledger(<<1>>, <<7>>, <<>>, <<8>>)
  /\ kvState = <<state>>
  /\ kvMeta = [EmptyMeta EXCEPT !.deviceId = <<"dev-A">>]
  /\ kvSync = NoConfig
  /\ legacyRaw = <<>>
  /\ clock = 0 /\ drawn = 0 /\ legacyBillar = NoLegacy
  /\ loaded = <<>> /\ lastSaved = <<>>
  /\ IdleWorker
  /\ fnArgs = <<>> /\ fnRes = FALSE
  /\ IdleSync
  /\ IdleSnapshots

NextTrim == SnapshotNow

SpecTrim == InitTrim /\ [][NextTrim]_vars

(***************************************************************************)
(* Daily snapshot.                                                         *)
(***************************************************************************)
\* new Date().toISOString().slice(0, 10): the calendar date in UTC.
UtcDay(now) == now \div DayLen

\* The calendar date on the device, whose local time is UTC + off.
LocalDay(now, off) == (now + off) \div DayLen

ensureDailySnapshotDue(s, meta, now) ==
  /\ ~isStateEmpty(s)
  /\ meta.lastSnapshotDay # <<UtcDay(now)>>

\* ensureDailySnapshot(state), as init and the legacy migration button call it.
EnsureDaily ==
  /\ op = NoOp
  /\ Len(dailyCalls) < MaxDailyCalls
  /\ LET snap == Snapshot(nowISO(clock), "auto-diario", state)
     IN  IF ensureDailySnapshotDue(state, kvMeta, clock)
         THEN /\ kvSnaps' = createSnapshotBodies(kvSnaps, kvSnapIndex, snap)
              /\ kvSnapIndex' = createSnapshotIndex(kvSnapIndex, snap)
              /\ created' = Append(created, snap)
              /\ kvMeta' = [kvMeta EXCEPT !.lastSnapshotDay = <<UtcDay(clock)>>]
         ELSE UNCHANGED <<kvSnaps, kvSnapIndex, created, kvMeta>>
  /\ dailyCalls' = Append(dailyCalls, [at |-> clock, nonEmpty |-> ~isStateEmpty(state)])
  /\ op' = [NoOp EXCEPT !.name = "daily"]
  /\ pre' = Before
  /\ UNCHANGED <<state, kvState, kvSync, legacyRaw, remote, clock, tz, rows, pending, status, phase,
                 loaded, lastSaved, legacyBillar, fnArgs, caches, site, event, fnRes>>
  /\ drawn' = drawn + Drew(kvMeta, kvMeta')

\* A mutation handler replaces the live state and saves it.
Mutate ==
  \E s \in LocalStates :
    /\ op = NoOp
    /\ s # state
    /\ state' = s
    /\ kvState' = saveStateDoc(kvState, s)
    /\ kvMeta' = saveStateMeta(kvMeta, NoOptions, clock)
    /\ UNCHANGED <<kvSync, kvSnapIndex, kvSnaps, legacyRaw, remote, clock, tz, rows, pending, status,
                   phase, op, pre, created, dailyCalls, loaded, lastSaved, 
                   legacyBillar, fnArgs, caches, site, event, fnRes>>
    /\ drawn' = drawn + Drew(kvMeta, kvMeta')

TickDaily ==
  /\ op = NoOp
  /\ clock < MaxDailyClock
  /\ clock' = clock + 1
  /\ UNCHANGED <<state, kvState, kvMeta, kvSync, kvSnapIndex, kvSnaps, legacyRaw, remote,
                 tz, rows, pending, status, phase, op, pre, created, dailyCalls, loaded, lastSaved,
                 drawn, legacyBillar, fnArgs, caches, site, event, fnRes>>

InitDaily ==
  /\ state \in LocalStates
  /\ kvState = <<state>>
  /\ kvMeta = [EmptyMeta EXCEPT !.deviceId = <<"dev-A">>]
  /\ kvSync = NoConfig
  /\ legacyRaw = <<>>
  /\ clock = 0 /\ drawn = 0 /\ legacyBillar = NoLegacy
  /\ tz \in TzOffsets
  /\ rows = {} /\ pending = <<>>
  /\ kvSnapIndex = <<>> /\ kvSnaps = <<>> /\ created = <<>> /\ dailyCalls = <<>>
  /\ loaded = <<>> /\ lastSaved = <<>>
  /\ IdleWorker
  /\ fnArgs = <<>> /\ fnRes = FALSE
  /\ IdleSync

NextDaily == EnsureDaily \/ Mutate \/ TickDaily \/ Idle

SpecDaily == InitDaily /\ [][NextDaily]_vars

\* C2: after N createSnapshot calls made one after another, the index holds
\* min(N, 20) entries, the bodies of the min(N, 20) most recent snapshots can
\* be retrieved, and the bodies of all older snapshots are gone.
C2_SnapshotRetention ==
  LET n == Len(created)
      keep == IF n < MAX_SNAPSHOTS THEN n ELSE MAX_SNAPSHOTS
  IN  /\ Len(kvSnapIndex) = keep
      /\ \A i \in 1..n : (i > n - keep) => Retrievable(created[i].id)
      /\ \A i \in 1..n : (i <= n - keep) => ~Retrievable(created[i].id)

DailyOn(day) ==
  {k \in 1..Len(created) :
     created[k].reason = "auto-diario" /\ LocalDay(created[k].at.ms, tz) = day}

\* C3: two ensureDailySnapshot calls on the same calendar day with a
\* non-empty state create exactly one 'auto-diario' snapshot; a call with an
\* empty state creates no snapshot and leaves lastSnapshotDay unchanged.
C3_OneDailySnapshotPerDay ==
  /\ \A i, j \in 1..Len(dailyCalls) :
       (/\ i < j
        /\ dailyCalls[i].nonEmpty /\ dailyCalls[j].nonEmpty
        /\ LocalDay(dailyCalls[i].at, tz) = LocalDay(dailyCalls[j].at, tz))
       => Cardinality(DailyOn(LocalDay(dailyCalls[i].at, tz))) = 1
  /\ (op.name = "daily" /\ isStateEmpty(pre.state))
       => /\ Len(created) = pre.nCreated
          /\ kvMeta.lastSnapshotDay = pre.kvMeta.lastSnapshotDay

-----------------------------------------------------------------------------
(* Claims about failures *)

FetchFailures == {"network", "http", "body"}

\* The auto-sync block met a failure: the GET failed, or a storage request did.
AutoFailed == op.name = "auto" /\ (op.get \in FetchFailures \/ op.fault # "none")

\* C11: whatever fails during the startup auto-sync (the GET, the reads of the
\* configuration or the metadata, the writes of saveState), init completes, no
\* error leaves the block, the failure shows at most in the status text, and
\* after a failed GET the live state, the 'state' key and the metadata record
\* are as before.
C11_AutoSyncFailureSwallowed ==
  AutoFailed =>
    /\ phase = "ready"
    /\ ~op.threw
    /\ status \in {"Listo (online)", "Listo (offline)", "Auto-sync: datos remotos aplicados"}
    /\ remote = pre.remote
    /\ op.get \in FetchFailures => Unchanged

\* C11 witness: the write of the pulled state was rejected by the store and
\* init went on with the idle status.
C11_Witness ==
  /\ AutoFailed /\ op.fault = "putStateReject" /\ op.get = "ok"
  /\ phase = "ready" /\ status = "Listo (online)" /\ kvState = pre.kvState


\* The GET of the last handler was answered 404: there is no remote file.
Got404 == op.get = "ok" /\ pre.remote = <<>>

\* C12: a GET answered 404 is no error: a push goes on, unasked, to PUT the
\* local state, and a pull reports that there is no remote data and leaves the
\* live state, the 'state' key and the metadata record as they were.
C12_NotFoundIsAbsent ==
  /\ (op.name = "push" /\ Got404) =>
       /\ ~op.asked
       /\ op.putSent
       /\ op.put = "ok" =>
            (remote # <<>> /\ remote[1].state = <<pre.state>> /\ status = "Subido OK")
  /\ (op.name = "pull" /\ Got404) => (status = "Sin datos remotos" /\ Unchanged)

\* C12 witness: a push created the remote file that did not exist.
C12_Witness ==
  /\ op.name = "push" /\ Got404 /\ op.put = "ok" /\ ~op.asked
  /\ remote # <<>> /\ remote[1].state = <<state>>

(***************************************************************************)
(* Legacy importer.  The three legacy localStorage keys hold raw text: a   *)
(* raw value is [kind, items], kind "absent" for null or '', "junk" for    *)
(* text that does not parse to an array, "array" with the parsed records.  *)
(* An optional number is <<>> when the field is missing or not numeric.    *)
(* Money is in whole units; the values of the model need no rounding.      *)
(***************************************************************************)
RawAbsent == [kind |-> "absent", items |-> <<>>]
RawJunk == [kind |-> "junk", items |-> <<>>]
RawArray(items) == [kind |-> "array", items |-> items]

\* String(s || '').trim() on the names of the model.
trim(s) == IF s = "  " THEN "" ELSE s

\* normalizeName: trimmed and lower-cased.
normalizeName(s) == IF trim(s) = "Soda" THEN "soda" ELSE trim(s)

\* parseMoney: Number(value) when finite, else 0.
parseMoney(v) == IF v = <<>> THEN 0 ELSE v[1]

\* clampInt(n, min, max)
clampInt(v, min, max) ==
  IF v = <<>> THEN min
  ELSE IF v[1] < min THEN min
  ELSE IF v[1] > max THEN max
  ELSE v[1]

\* `rawX ? safeJsonParse(rawX) : null`, then Array.isArray(x) && x.length
legacyHasRecords(raw) == raw.kind = "array" /\ Len(raw.items) > 0

hasAnything(legacy) ==
  \/ legacyHasRecords(legacy.products)
  \/ legacyHasRecords(legacy.sales)
  \/ legacyHasRecords(legacy.tables)

\* The products loop: acc is [products, byName, n], n the uuid() draws so far;
\* u is the sequence of values uuid() returns.
RECURSIVE importProducts(_, _, _)
importProducts(lps, u, acc) ==
  IF lps = <<>> THEN acc
  ELSE LET lp == Head(lps)
           name == trim(lp.nombre)
           product == [id |-> u[acc.n + 1], name |-> name, category |-> "otro",
                       cost |-> parseMoney(lp.costo), price |-> parseMoney(lp.precio),
                       stock |-> clampInt(lp.stock, 0, 1000000),
                       stockMin |-> clampInt(lp.stockMinimo, 0, 1000000)]
       IN IF name = "" THEN importProducts(Tail(lps), u, acc)
          ELSE importProducts(Tail(lps), u,
                 [acc EXCEPT !.products = Append(@, product),
                             !.byName = (normalizeName(name) :> product) @@ @,
                             !.n = @ + 1])

\* The sales loop: acc is [products, byName, sales, n].  A sale whose product
\* name matches no imported product creates a placeholder product.
RECURSIVE importSales(_, _, _, _)
importSales(lss, u, now, acc) ==
  IF lss = <<>> THEN acc
  ELSE LET ls == Head(lss)
           qty == clampInt(ls.cantidad, 1, 1000000)
           unitPrice == parseMoney(ls.precio)
           total == IF ls.total = <<>> THEN unitPrice * qty ELSE ls.total[1]
           profit == parseMoney(ls.ganancia)
           name == trim(ls.producto)
           key == normalizeName(name)
           known == key \in DOMAIN acc.byName
           unitProfit == profit \div qty
           unitCost == IF unitPrice - unitProfit < 0 THEN 0 ELSE unitPrice - unitProfit
           placeholder == [id |-> u[acc.n + 1],
                           name |-> IF name = "" THEN "Producto (migrado)" ELSE name,
                           category |-> "otro", cost |-> unitCost, price |-> unitPrice,
                           stock |-> 0, stockMin |-> 0]
           product == IF known THEN acc.byName[key] ELSE placeholder
           n1 == IF known THEN acc.n ELSE acc.n + 1
           sale == [id |-> u[n1 + 1], at |-> IF ls.hora = <<>> THEN nowISO(now) ELSE Iso(ls.hora[1]),
                    productId |-> product.id, qty |-> qty, unitPrice |-> unitPrice,
                    unitCost |-> product.cost, total |-> total, profit |-> profit,
                    notes |-> "Migrado"]
       IN importSales(Tail(lss), u, now,
            [acc EXCEPT !.products = IF known THEN @ ELSE Append(@, placeholder),
                        !.byName = IF known THEN @
                                   ELSE (normalizeName(placeholder.name) :> placeholder) @@ @,
                        !.sales = Append(@, sale),
                        !.n = n1 + 1])

\* The tables loop: only sessions not marked inactive.
RECURSIVE importTables(_, _, _, _)
importTables(lts, u, now, acc) ==
  IF lts = <<>> THEN acc
  ELSE LET lt == Head(lts)
           session == [id |-> u[acc.n + 1], table |-> clampInt(lt.mesa, 1, 1000000),
                       players |-> clampInt(lt.jugadores, 1, 100),
                       rate |-> parseMoney(lt.tarifa),
                       startAt |-> IF lt.inicio = <<>> THEN nowISO(now) ELSE Iso(lt.inicio[1]),
                       active |-> TRUE]
       IN IF lt.activa = <<FALSE>> THEN importTables(Tail(lts), u, now, acc)
          ELSE importTables(Tail(lts), u, now,
                 [acc EXCEPT !.tables = Append(@, session), !.n = @ + 1])

RecordsOf(raw) == IF raw.kind = "array" THEN raw.items ELSE <<>>

\* The state the importer builds from the three keys.
importedState(legacy, u, now) ==
  LET a0 == [products |-> <<>>, byName |-> <<>>, sales |-> <<>>, tables |-> <<>>, n |-> 0]
      a1 == importProducts(RecordsOf(legacy.products), u, a0)
      a2 == importSales(RecordsOf(legacy.sales), u, now, a1)
      a3 == importTables(RecordsOf(legacy.tables), u, now, a2)
  IN Ledger(a3.products, a3.sales, <<>>, a3.tables)

\* migrateFromLegacyBillarLocalStorageIntoState(state): [state, migrated].
migrateFromLegacy(s, legacy, u, now) ==
  IF ~isStateEmpty(s) THEN [state |-> s, migrated |-> FALSE]
  ELSE IF legacy.throws THEN [state |-> s, migrated |-> FALSE]
  ELSE IF ~hasAnything(legacy) THEN [state |-> s, migrated |-> FALSE]
  ELSE [state |-> importedState(legacy, u, now), migrated |-> TRUE]

\* Legacy records of the model.
LegacyProduct(nombre) ==
  [nombre |-> nombre, costo |-> <<5>>, precio |-> <<8>>, stock |-> <<10>>,
   stockMinimo |-> <<>>]

LegacySale(producto) ==
  [cantidad |-> <<2>>, precio |-> <<8>>, total |-> <<>>, ganancia |-> <<6>>,
   producto |-> producto, hora |-> <<>>]

LegacyTable(activa) ==
  [activa |-> activa, mesa |-> <<1>>, jugadores |-> <<2>>, tarifa |-> <<10>>,
   inicio |-> <<0>>]

\* A legacy product with the given 'costo' and 'precio'.
LegacyProductAt(nombre, costo, precio) ==
  [LegacyProduct(nombre) EXCEPT !.costo = costo, !.precio = precio]

\* An active legacy session whose 'mesa' is the given value (<<>>: a value
\* Number() does not turn into a number, which clampInt maps to table 1).
LegacyTableOn(mesa) == [LegacyTable(<<>>) EXCEPT !.mesa = mesa]

LegacyProductKeys ==
  {RawAbsent, RawJunk, RawArray(<<>>),
   RawArray(<<LegacyProduct("  ")>>),
   RawArray(<<LegacyProduct("soda")>>),
   RawArray(<<LegacyProduct("soda"), LegacyProduct("Soda")>>),
   RawArray(<<LegacyProduct(""), LegacyProduct("soda")>>)}

LegacySaleKeys ==
  {RawAbsent,
   RawArray(<<LegacySale("Soda")>>),
   RawArray(<<LegacySale("")>>),
   RawArray(<<LegacySale("chips")>>)}

LegacyTableKeys ==
  {RawAbsent, RawArray(<<LegacyTable(<<>>)>>), RawArray(<<LegacyTable(<<FALSE>>)>>)}

LegacyStores ==
  {[products |-> p, sales |-> s, tables |-> t, throws |-> th] :
     p \in LegacyProductKeys, s \in LegacySaleKeys, t \in LegacyTableKeys, th \in BOOLEAN}

\* Values uuid() returns on successive calls: Date.now() plus a random number
\* below 1000, so equal values can come back.
UuidDraws == {<<11, 12, 13, 14, 15>>, <<21, 22, 21, 23, 24>>}

\* States the importer is called with.
ImporterStates ==
  {emptyState,
   Ledger(<<[id |-> 1, name |-> "soda", category |-> "bebida", cost |-> 5, price |-> 8,
             stock |-> 24, stockMin |-> 5]>>, <<>>, <<>>, <<>>)}

\* The importer run twice in a row, the second time on the result of the first.
ApplyMigrateTwice ==
  /\ fnRes = <<>>
  /\ \E u2 \in UuidDraws :
       LET r1 == migrateFromLegacy(fnArgs[1], fnArgs[2], fnArgs[3], clock)
           r2 == migrateFromLegacy(r1.state, fnArgs[2], u2, clock)
       IN fnRes' = <<r1, r2>>
  /\ UNCHANGED <<state, kvState, kvMeta, kvSync, kvSnapIndex, kvSnaps, legacyRaw, remote,
                 clock, tz, rows, pending, status, phase, op, pre, created, dailyCalls, loaded, lastSaved, drawn, 
                 legacyBillar, fnArgs, caches, site, event>>

InitImporter ==
  /\ IdleWorker
  /\ fnArgs \in ImporterStates \X LegacyStores \X UuidDraws
  /\ fnRes = <<>>
  /\ state = emptyState /\ kvState = <<>> /\ kvMeta = EmptyMeta /\ kvSync = NoConfig
  /\ legacyRaw = <<>> /\ clock = 0 /\ drawn = 0 /\ legacyBillar = NoLegacy
  /\ IdleSync /\ IdleSnapshots /\ IdleRepo

NextImporter == ApplyMigrateTwice

SpecImporter == InitImporter /\ [][NextImporter]_vars

\* C13: the importer run twice in a row, the second run on the state the first
\* produced, adds no product and no sale: the second run returns that state
\* unchanged with migrated = false.
C13_ImportIdempotent ==
  fnRes # <<>> => (fnRes[2].state = fnRes[1].state /\ ~fnRes[2].migrated)

(***************************************************************************)
(* Application life cycle: the first part of init (load, device id, legacy *)
(* migration, seed, daily snapshot), the maintenance buttons, a reload.    *)
(***************************************************************************)
MaxDraws == 2   \* randomId() calls explored

SeedProducts ==
  <<[id |-> 1, name |-> "Coca-Cola 500ml", category |-> "bebida", cost |-> 5, price |-> 8,
     stock |-> 24, stockMin |-> 5],
    [id |-> 2, name |-> "Cerveza Nacional", category |-> "bebida", cost |-> 6, price |-> 12,
     stock |-> 36, stockMin |-> 10],
    [id |-> 3, name |-> "Papas fritas", category |-> "snack", cost |-> 3, price |-> 6,
     stock |-> 15, stockMin |-> 5]>>

\* seedIfEmpty(state): id is the value uuid() returns, the session started 45
\* minutes before now.
seedIfEmpty(s, id, now) ==
  IF ~isStateEmpty(s) THEN s
  ELSE [s EXCEPT !.products = Arr(SeedProducts),
                 !.tables = Arr(<<[id |-> id, table |-> 1, players |-> 2, rate |-> 10,
                                   startAt |-> Iso(now - 45), active |-> TRUE]>>)]

\* ensureDailySnapshot(state): the metadata record, the index and the bodies
\* it leaves, and the snapshot it made (<<>>: none).
ensureDailySnapshot(s, meta, idx, bodies, now) ==
  LET snap == Snapshot(nowISO(now), "auto-diario", s)
  IN IF ensureDailySnapshotDue(s, meta, now)
     THEN [kvMeta |-> [meta EXCEPT !.lastSnapshotDay = <<UtcDay(now)>>],
           kvSnapIndex |-> createSnapshotIndex(idx, snap),
           kvSnaps |-> createSnapshotBodies(bodies, idx, snap),
           made |-> <<snap>>]
     ELSE [kvMeta |-> meta, kvSnapIndex |-> idx, kvSnaps |-> bodies, made |-> <<>>]

\* init, line 899: whether the startup migration calls the importer.
startupMigrationDueNoFlag(meta, s) == isStateEmpty(s)

startupMigrationDue(meta, s) == meta.legacyBillarMigratedAt = <<>> /\ isStateEmpty(s)

\* init, lines 890-893: the state loaded, the 'state' key and the metadata
\* record once the device id is stored.
startupLoad(doc, raw, meta) ==
  LET res0 == loadStateResult(doc, raw)
  IN  [state |-> IF res0 = <<>> THEN emptyState ELSE res0[1],
       kvState |-> loadStateDoc(doc, raw),
       kvMeta |-> ensureDeviceId(meta)]

\* init, lines 897-913: a is what startupLoad left, res the importer's result.
startupConvert(a, res, now) ==
  IF startupMigrationDue(a.kvMeta, a.state) /\ res.migrated
  THEN [state |-> res.state,
        kvState |-> saveStateDoc(a.kvState, res.state),
        kvMeta |-> saveStateMeta([a.kvMeta EXCEPT !.legacyBillarMigratedAt = <<now>>],
                                 [NoOptions EXCEPT !.source = <<"migracion">>], now),
        migrated |-> TRUE]
  ELSE [state |-> a.state, kvState |-> a.kvState, kvMeta |-> a.kvMeta, migrated |-> FALSE]

\* init, lines 915-920: b is what startupConvert left, s2 the seeded state.
startupSeed(b, s2, now) ==
  IF b.migrated \/ (isStateEmpty(b.state) /\ ~isStateEmpty(s2))
  THEN [state |-> s2,
        kvState |-> saveStateDoc(b.kvState, s2),
        kvMeta |-> saveStateMeta(b.kvMeta, [NoOptions EXCEPT !.source = <<"init">>], now),
        migrated |-> b.migrated]
  ELSE [state |-> s2, kvState |-> b.kvState, kvMeta |-> b.kvMeta, migrated |-> b.migrated]

\* A handler's result once ensureDailySnapshot has run: c is what the handler
\* left before the call, daily what the call left.
withDaily(c, daily) ==
  [state |-> c.state, kvState |-> c.kvState, kvMeta |-> daily.kvMeta,
   kvSnapIndex |-> daily.kvSnapIndex, kvSnaps |-> daily.kvSnaps, made |-> daily.made,
   migrated |-> c.migrated]

startupSeeded(b, id, now) == startupSeed(b, seedIfEmpty(b.state, id, now), now)

startupDaily(c, idx, bodies, now) ==
  withDaily(c, ensureDailySnapshot(c.state, c.kvMeta, idx, bodies, now))

startupConverted(a, legacy, u, now) ==
  startupConvert(a, migrateFromLegacy(a.state, legacy, u, now), now)

\* init, lines 890-923: load, device id, legacy migration, seed, daily snapshot.
startupRun(doc, raw, meta, idx, bodies, legacy, u, now) ==
  startupDaily(
    startupSeeded(startupConverted(startupLoad(doc, raw, meta), legacy, u, now),
                  u[Len(u)], now),
    idx, bodies, now)

\* btnMigrateLegacy click, lines 997-1004: res is the importer's result.
migrateLegacySaved(res, doc, meta, now) ==
  [state |-> res.state,
   kvState |-> saveStateDoc(doc, res.state),
   kvMeta |-> [saveStateMeta(meta, [NoOptions EXCEPT !.source = <<"migracion-manual">>], now)
                 EXCEPT !.legacyBillarMigratedAt = <<now>>],
   migrated |-> TRUE]

migrateLegacyApply(ok, s, doc, meta, idx, bodies, res, now) ==
  IF ~ok \/ ~isStateEmpty(s) \/ ~res.migrated
  THEN [state |-> s, kvState |-> doc, kvMeta |-> meta, kvSnapIndex |-> idx,
        kvSnaps |-> bodies, made |-> <<>>, migrated |-> FALSE]
  ELSE startupDaily(migrateLegacySaved(res, doc, meta, now), idx, bodies, now)

\* btnMigrateLegacy click, lines 986-1009.
migrateLegacyRun(ok, s, doc, meta, idx, bodies, legacy, u, now) ==
  migrateLegacyApply(ok, s, doc, meta, idx, bodies, migrateFromLegacy(s, legacy, u, now), now)

\* Snapshots a handler made are added to the history.
Made(res) == created \o res.made

\* The ensureDailySnapshot call of a handler is added to the history while it
\* has room.
DailyCalled(s) ==
  IF Len(dailyCalls) < MaxDailyCalls
  THEN Append(dailyCalls, [at |-> clock, nonEmpty |-> ~isStateEmpty(s)])
  ELSE dailyCalls

\* The page is opened: init runs up to the sync UI.
Startup ==
  \E u \in UuidDraws :
    LET res == startupRun(kvState, legacyRaw, kvMeta, kvSnapIndex, kvSnaps, legacyBillar,
                          u, clock)
    IN /\ phase = "start"
       /\ op = NoOp
       /\ state' = res.state
       /\ kvState' = res.kvState
       /\ legacyRaw' = loadStateLegacy(kvState, legacyRaw)
       /\ kvMeta' = res.kvMeta
       /\ kvSnapIndex' = res.kvSnapIndex
       /\ kvSnaps' = res.kvSnaps
       /\ created' = Made(res)
       /\ dailyCalls' = DailyCalled(res.state)
       /\ phase' = "boot"
       /\ op' = [NoOp EXCEPT !.name = "startup", !.migrated = res.migrated]
       /\ pre' = Before
       /\ drawn' = drawn + Drew(kvMeta, kvMeta')
       /\ UNCHANGED <<kvSync, legacyBillar, remote, clock, tz, rows, pending, status, loaded, lastSaved,
                      fnArgs, caches, site, event, fnRes>>

\* btnMigrateLegacy click.
MigrateLegacy ==
  \E ok \in BOOLEAN, u \in UuidDraws :
    LET res == migrateLegacyRun(ok, state, kvState, kvMeta, kvSnapIndex, kvSnaps,
                                legacyBillar, u, clock)
    IN /\ phase = "ready"
       /\ op = NoOp
       /\ state' = res.state
       /\ kvState' = res.kvState
       /\ kvMeta' = res.kvMeta
       /\ kvSnapIndex' = res.kvSnapIndex
       /\ kvSnaps' = res.kvSnaps
       /\ created' = Made(res)
       /\ dailyCalls' = IF res.migrated THEN DailyCalled(res.state) ELSE dailyCalls
       /\ op' = [NoOp EXCEPT !.name = "migrate", !.answer = ok, !.migrated = res.migrated]
       /\ pre' = Before
       /\ drawn' = drawn + Drew(kvMeta, kvMeta')
       /\ UNCHANGED <<kvSync, legacyRaw, legacyBillar, remote, clock, tz, rows, pending, status, phase,
                      loaded, lastSaved, fnArgs, caches, site, event, fnRes>>

\* btnClear click, lines 964-973: idbClearAll() empties the object store, then
\* the empty state is saved.
Clear ==
  \E ok \in BOOLEAN :
    /\ phase = "ready"
    /\ op = NoOp
    /\ drawn < MaxDraws
    /\ IF ok
       THEN /\ state' = emptyState
            /\ kvState' = saveStateDoc(<<>>, emptyState)
            /\ kvMeta' = saveStateMeta(EmptyMeta, [NoOptions EXCEPT !.source = <<"clear">>],
                                       clock)
            /\ kvSync' = NoConfig
            /\ kvSnapIndex' = <<>>
            /\ kvSnaps' = <<>>
            /\ legacyRaw' = <<>>
            /\ drawn' = drawn + 1
       ELSE UNCHANGED <<state, kvState, kvMeta, kvSync, kvSnapIndex, kvSnaps, legacyRaw,
                        drawn>>
    /\ op' = [NoOp EXCEPT !.name = "clear", !.answer = ok]
    /\ pre' = Before
    /\ UNCHANGED <<legacyBillar, remote, clock, tz, rows, pending, status, phase, created, dailyCalls,
                   loaded, lastSaved, fnArgs, caches, site, event, fnRes>>

\* The page is closed and opened again: the live state is gone, init starts.
Reload ==
  /\ phase = "ready"
  /\ op = NoOp
  /\ phase' = "start"
  /\ state' = emptyState
  /\ status' = ""
  /\ UNCHANGED <<kvState, kvMeta, kvSync, kvSnapIndex, kvSnaps, legacyRaw, legacyBillar,
                 remote, clock, tz, rows, pending, op, pre, created, dailyCalls, loaded, lastSaved, drawn,
                 fnArgs, caches, site, event, fnRes>>

\* fileImport change, lines 948-950: the shape check of a backup file.
\* The shape check without its last clause.
importShapeOkNoTables(s) ==
  /\ s.products.kind = "array"
  /\ s.sales.kind = "array"
  /\ s.expenses.kind = "array"

importShapeOk(s) ==
  /\ s.products.kind = "array"
  /\ s.sales.kind = "array"
  /\ s.expenses.kind = "array"
  /\ s.tables.kind = "array"

\* Backup files the user may pick: none, text that is no JSON object, a
\* document without `tables`, a document whose `products` is no array, an
\* empty backup, a backup with one product.
BackupLedger ==
  Ledger(<<[id |-> 9, name |-> "agua", category |-> "bebida", cost |-> 2, price |-> 4,
            stock |-> 6, stockMin |-> 1]>>, <<>>, <<>>, <<>>)

ImportFiles ==
  {[kind |-> "none", state |-> emptyState],
   [kind |-> "junk", state |-> emptyState],
   [kind |-> "doc", state |-> [BackupLedger EXCEPT !.tables = Missing]],
   [kind |-> "doc", state |-> [BackupLedger EXCEPT !.products = NotArray]],
   [kind |-> "doc", state |-> emptyState],
   [kind |-> "doc", state |-> BackupLedger]}

ToastImported == "Importado"
ToastError == "Error"

\* fileImport change, lines 937-960: whether the file replaces the state.
importAccepted(file) == file.kind = "doc" /\ importShapeOk(file.state)

\* A backup file is chosen in the import dialog.
ImportFile ==
  \E file \in ImportFiles :
    /\ phase = "ready"
    /\ op = NoOp
    /\ IF importAccepted(file)
       THEN /\ state' = file.state
            /\ kvState' = saveStateDoc(kvState, file.state)
            /\ kvMeta' = saveStateMeta(kvMeta, NoOptions, clock)
       ELSE UNCHANGED <<state, kvState, kvMeta>>
    /\ op' = [NoOp EXCEPT !.name = "import", !.get = file.kind,
                           !.file = IF file.kind = "doc" THEN <<file.state>> ELSE <<>>,
                           !.toast = IF file.kind = "none" THEN ""
                                     ELSE IF importAccepted(file) THEN ToastImported
                                     ELSE ToastError]
    /\ pre' = Before
    /\ drawn' = drawn + Drew(kvMeta, kvMeta')
    /\ UNCHANGED <<kvSync, kvSnapIndex, kvSnaps, legacyRaw, legacyBillar, remote, clock, tz, rows, pending,
                   status, phase, created, dailyCalls, loaded, lastSaved, fnArgs, caches, site, event, fnRes>>

\* What the older app left in localStorage.
AppLegacy ==
  {NoLegacy,
   [NoLegacy EXCEPT !.products = RawArray(<<LegacyProduct("  ")>>)],
   [NoLegacy EXCEPT !.products = RawArray(<<LegacyProduct("soda")>>),
                    !.sales = RawArray(<<LegacySale("Soda")>>)],
   [NoLegacy EXCEPT !.tables = RawArray(<<LegacyTableOn(<<1>>), LegacyTableOn(<<>>)>>)]}

\* A browser in which the app is opened for the first time.
InitApp ==
  /\ state = emptyState
  /\ kvState = <<>>
  /\ kvMeta = EmptyMeta
  /\ kvSync = NoConfig
  /\ kvSnapIndex = <<>> /\ kvSnaps = <<>> /\ created = <<>> /\ dailyCalls = <<>> /\ tz = 0
  /\ rows = {} /\ pending = <<>>
  /\ legacyRaw = <<>>
  /\ legacyBillar \in AppLegacy
  /\ remote = <<>>
  /\ clock = 0
  /\ drawn = 0
  /\ status = ""
  /\ phase = "start"
  /\ op = NoOp
  /\ pre = NoPre
  /\ IdleRepo /\ IdlePure

NextApp ==
  Startup \/ AutoSync \/ MigrateLegacy \/ Clear \/ ImportFile \/ Reload \/ Tick \/ Idle

SpecApp == InitApp /\ [][NextApp]_vars

\* The state the importer was called with by the last handler: at startup the
\* state init loaded, at the button the live state.
GivenState ==
  IF op.name = "startup"
  THEN (IF pre.kvState = <<>> THEN emptyState ELSE pre.kvState[1])
  ELSE pre.state

ImportRecorded == pre.kvMeta.legacyBillarMigratedAt # <<>>

\* C14 as stated: whichever trigger runs it, the importer converts only when the
\* domain state is empty and no earlier import is recorded in the metadata.
C14_Original ==
  op.migrated => (isStateEmpty(GivenState) /\ ~ImportRecorded)

\* C14 amended: the importer converts only when the domain state is empty; at
\* startup, also only when no earlier import is recorded in the metadata; the
\* import button converts into an empty state whether or not one is recorded.
C14_ImportOnlyIntoEmpty ==
  op.migrated =>
    /\ op.name \in {"startup", "migrate"}
    /\ isStateEmpty(GivenState)
    /\ op.name = "startup" => ~ImportRecorded

\* C14 witness: the startup converted the legacy data of a first run.
C14_Witness ==
  /\ op.name = "startup" /\ op.migrated /\ ~ImportRecorded
  /\ Len(state.sales.items) = 1 /\ kvMeta.legacyBillarMigratedAt # <<>>

\* C15: once a deviceId is stored in the metadata record, every later read of
\* the record returns that deviceId, whatever operation ran in between.
C15_DeviceIdStable ==
  [][kvMeta.deviceId # <<>> => kvMeta'.deviceId = kvMeta.deviceId]_vars

\* C19: when the read or the write of the metadata record inside saveState
\* fails, saveState completes without error and the 'state' key holds the
\* document of that call; when the write of the 'state' key fails, saveState
\* fails and the metadata record is as it was.
C19_SaveStateFaults ==
  (op.name = "save" /\ loaded = <<>>) =>
    /\ op.fault \in {"getMeta", "putMeta"} => (~op.threw /\ kvState = <<state>>)
    /\ op.fault = "putStateReject" => (op.threw /\ kvMeta = pre.kvMeta)

\* C19 witness: a save whose metadata write failed stored a new document and
\* left the metadata record of an earlier save in place.
C19_Witness ==
  /\ op.name = "save" /\ op.fault = "putMeta" /\ ~op.threw
  /\ kvState = <<state>> /\ pre.kvState # kvState
  /\ kvMeta = pre.kvMeta /\ kvMeta.stateUpdatedAt # Absent

(***************************************************************************)
(* Snapshot list.  Every row of the list carries the id of an index entry  *)
(* as it was when the list was rendered; renderSnapshotsUI is asynchronous *)
(* and is not awaited, so a row can be clicked after its body is gone.     *)
(***************************************************************************)
MaxListed == 2    \* createSnapshot calls explored by SpecList

\* idbGet(IDB_SNAPSHOT_PREFIX + id); <<>> is null.
getSnapshot(bodies, id) == IF id \in DOMAIN bodies THEN <<bodies[id]>> ELSE <<>>

\* !snap?.state: a stored body always carries a state document.
snapshotMissing(snap) == snap = <<>>

ToastNotFound == "Respaldo no encontrado."
ToastRestored == "Datos restaurados desde respaldo."
ToastDownloaded == "Respaldo descargado como JSON."

\* The restore branch without the `!snap?.state` test: reading the state of
\* a null body throws.
restoreRunUnchecked(ok, id, f, s, doc, meta, bodies, now) ==
  LET quiet == [state |-> s, kvState |-> doc, kvMeta |-> meta, toast |-> "", threw |-> FALSE]
      snap == getSnapshot(bodies, id)
      s1 == IF snapshotMissing(snap) THEN s ELSE snap[1].state
      sv == saveStateRun(s1, [NoOptions EXCEPT !.source = <<"snapshot-restore">>], f,
                         doc, meta, now)
  IN  IF ~ok THEN quiet
      ELSE IF snapshotMissing(snap) THEN [quiet EXCEPT !.threw = TRUE]
      ELSE [state |-> s1, kvState |-> sv.kvState, kvMeta |-> sv.kvMeta,
            toast |-> IF sv.threw THEN "" ELSE ToastRestored, threw |-> sv.threw]

\* The restore branch of the snapshot list's click handler, lines 1021-1033.
restoreRun(ok, id, f, s, doc, meta, bodies, now) ==
  LET quiet == [state |-> s, kvState |-> doc, kvMeta |-> meta, toast |-> "", threw |-> FALSE]
      snap == getSnapshot(bodies, id)
      s1 == IF snapshotMissing(snap) THEN s ELSE snap[1].state
      sv == saveStateRun(s1, [NoOptions EXCEPT !.source = <<"snapshot-restore">>], f,
                         doc, meta, now)
  IN  IF ~ok THEN quiet
      ELSE IF snapshotMissing(snap) THEN [quiet EXCEPT !.toast = ToastNotFound]
      ELSE [state |-> s1, kvState |-> sv.kvState, kvMeta |-> sv.kvMeta,
            toast |-> IF sv.threw THEN "" ELSE ToastRestored, threw |-> sv.threw]

\* The download branch, lines 1035-1044: the file handed to the browser.
downloadRun(id, bodies) ==
  LET snap == getSnapshot(bodies, id)
  IN  IF snapshotMissing(snap) THEN [toast |-> ToastNotFound, file |-> <<>>]
      ELSE [toast |-> ToastDownloaded, file |-> <<snap[1].state>>]

\* Ids of the rows the list has shown.
ListedIds == {created[i].id : i \in 1..Len(created)}

Restore ==
  \E ok \in BOOLEAN, id \in ListedIds, f \in SaveFaults :
    LET res == restoreRun(ok, id, f, state, kvState, kvMeta, kvSnaps, clock)
    IN  /\ op = NoOp
        /\ state' = res.state
        /\ kvState' = res.kvState
        /\ kvMeta' = res.kvMeta
        /\ drawn' = drawn + Drew(kvMeta, kvMeta')
        /\ op' = [NoOp EXCEPT !.name = "restore", !.asked = TRUE, !.answer = ok, !.id = <<id>>,
                              !.fault = f, !.threw = res.threw, !.toast = res.toast]
        /\ pre' = Before
        /\ UNCHANGED <<kvSync, kvSnapIndex, kvSnaps, legacyRaw, remote, clock, tz, rows, pending, status,
                       phase, created, dailyCalls, loaded, lastSaved, legacyBillar, fnArgs, caches, site, event>>
        /\ fnRes' = <<>>

Download ==
  \E id \in ListedIds :
    LET res == downloadRun(id, kvSnaps)
    IN  /\ op = NoOp
        /\ op' = [NoOp EXCEPT !.name = "download", !.answer = TRUE, !.id = <<id>>,
                              !.toast = res.toast]
        /\ pre' = Before
        /\ fnRes' = res.file
        /\ UNCHANGED <<state, kvState, kvMeta, kvSync, kvSnapIndex, kvSnaps, legacyRaw,
                       remote, clock, tz, rows, pending, status, phase, created, dailyCalls, loaded,
                       lastSaved, drawn, legacyBillar, fnArgs, caches, site, event>>

\* Click on 'btnSnapshotNow' between other handlers.
SnapshotListed ==
  /\ op = NoOp
  /\ Len(created) < MaxListed
  /\ SnapshotNow

InitList ==
  /\ state = Ledger(<<1>>, <<7>>, <<>>, <<8>>)
  /\ kvState = <<state>>
  /\ kvMeta = [EmptyMeta EXCEPT !.deviceId = <<"dev-A">>]
  /\ kvSync = NoConfig
  /\ legacyRaw = <<>>
  /\ clock = 0 /\ drawn = 0 /\ legacyBillar = NoLegacy
  /\ IdleSync /\ IdleSnapshots /\ IdleRepo /\ IdlePure

NextList == SnapshotListed \/ Mutate \/ Clear \/ Restore \/ Download \/ Tick \/ Idle

SpecList == InitList /\ [][NextList]_vars

\* C16: once a snapshot body is stored under an id, the body under that id
\* stays the same for as long as it exists.
C16_SnapshotImmutable ==
  [][\A id \in (DOMAIN kvSnaps) \cap (DOMAIN kvSnaps') : kvSnaps'[id] = kvSnaps[id]]_vars

C18_MissingBodyReported ==
  [][(op'.name \in {"restore", "download"} /\ op.name = "none" /\ op'.answer
        /\ op'.id[1] \notin DOMAIN kvSnaps) =>
       /\ op'.toast = ToastNotFound
       /\ ~op'.threw
       /\ kvSnapIndex' = kvSnapIndex
       /\ state' = state
       /\ kvState' = kvState
       /\ kvMeta' = kvMeta]_vars

\* C18 witness: a row of a snapshot made earlier was restored after its body
\* was deleted.
C18_Witness ==
  /\ op.name = "restore" /\ op.answer /\ op.toast = ToastNotFound
  /\ op.id[1] \in ListedIds
  /\ op.id[1] \notin DOMAIN kvSnaps
  /\ ~isStateEmpty(state)

(***************************************************************************)
(* Products and sales.  Money and quantities are whole numbers; the form   *)
(* fields reach the handlers as the values parseMoney and clampInt return  *)
(* for them.  Storage requests of these handlers succeed.                  *)
(***************************************************************************)
MaxProducts == 2    \* products the ledger of SpecSales holds at most
MaxSales == 2       \* sales the ledger of SpecSales holds at most

\* state.products.find(x => x.id === id): the index of the first product with
\* that id, 0 when there is none.
RECURSIVE findIndex(_, _, _)
findIndex(items, id, i) ==
  IF i > Len(items) THEN 0
  ELSE IF items[i].id = id THEN i
  ELSE findIndex(items, id, i + 1)

find(items, id) == findIndex(items, id, 1)

\* The profit of a sale computed from the price alone.
saleProfitGross(qty, p) == qty * p.price

saleTotal(qty, p) == qty * p.price

saleProfit(qty, p) == qty * (p.price - p.cost)

\* The Sale object of lines 1168-1178.
Sale(id, now, qty, p) ==
  [id |-> id, at |-> nowISO(now), productId |-> p.id, qty |-> qty, unitPrice |-> p.price,
   unitCost |-> p.cost, total |-> saleTotal(qty, p), profit |-> saleProfit(qty, p)]

\* The saleForm submit handler: the live state it leaves, whether it saved,
\* and the title of the toast.
saleFormRun(s, productId, qtyField, u, now) ==
  LET qty == clampInt(<<qtyField>>, 1, 1000000)
      i == find(s.products.items, productId)
      p == s.products.items[i]
  IN  IF i = 0 THEN [state |-> s, saved |-> FALSE, toast |-> "Falta dato"]
      ELSE IF p.stock < qty THEN [state |-> s, saved |-> FALSE, toast |-> "Stock insuficiente"]
      ELSE [state |-> [s EXCEPT !.sales.items = Append(@, Sale(u, now, qty, p)),
                                !.products.items[i].stock = @ - qty],
            saved |-> TRUE, toast |-> "Venta registrada"]

\* The productForm submit handler; id 0 is the empty 'productId' field.
productFormRun(s, id, name, cost, price, stock, stockMin, u) ==
  LET i == find(s.products.items, id)
      quiet == [state |-> s, saved |-> FALSE, toast |-> ""]
      newP == [id |-> u, name |-> name, category |-> "otro", cost |-> cost, price |-> price,
               stock |-> stock, stockMin |-> stockMin]
  IN  IF name = "" THEN [quiet EXCEPT !.toast = "Falta dato"]
      ELSE IF ~(cost >= 0) \/ ~(price >= 0) \/ price < cost
        THEN [quiet EXCEPT !.toast = "Validacion"]
      ELSE IF id # 0
        THEN IF i = 0 THEN [quiet EXCEPT !.toast = "Error"]
             ELSE [state |-> [s EXCEPT !.products.items[i] =
                                [@ EXCEPT !.name = name, !.category = "otro", !.cost = cost,
                                          !.price = price, !.stock = stock,
                                          !.stockMin = stockMin]],
                   saved |-> TRUE, toast |-> "Actualizado"]
      ELSE [state |-> [s EXCEPT !.products.items = Append(@, newP)],
            saved |-> TRUE, toast |-> "Agregado"]

\* The product of the spec's scenario, as the product form created it.
Soda == [id |-> 11, name |-> "Soda", category |-> "otro", cost |-> 5, price |-> 8,
         stock |-> 10, stockMin |-> 2]

FormNames == {"", "Soda"}
FormCosts == {5, 9}
FormPrices == {8, 10}
FormStocks == {10}
FormQtys == {0, 3, 11}
\* Values of the hidden 'productId' field and of the product select: none,
\* the ids uuid() can return, and the id of a product deleted meanwhile.
FormIds == {0, 11, 12, 99}
ProductUuids == {11, 12}
SaleUuids == {21}

SaleSubmit ==
  \E productId \in FormIds, q \in FormQtys, u \in SaleUuids :
    LET res == saleFormRun(state, productId, q, u, clock)
    IN  /\ op = NoOp
        /\ Len(state.sales.items) < MaxSales
        /\ state' = res.state
        /\ kvState' = IF res.saved THEN saveStateDoc(kvState, res.state) ELSE kvState
        /\ kvMeta' = IF res.saved THEN saveStateMeta(kvMeta, NoOptions, clock) ELSE kvMeta
        /\ drawn' = drawn + Drew(kvMeta, kvMeta')
        /\ op' = [NoOp EXCEPT !.name = "sale", !.id = <<productId>>,
                              !.qty = clampInt(<<q>>, 1, 1000000), !.toast = res.toast]
        /\ pre' = Before
        /\ UNCHANGED <<kvSync, kvSnapIndex, kvSnaps, legacyRaw, remote, clock, tz, rows, pending, status,
                       phase, created, dailyCalls, loaded, lastSaved, legacyBillar, fnArgs, caches, site, event,
                       fnRes>>

ProductSubmit ==
  \E id \in FormIds, name \in FormNames, cost \in FormCosts, price \in FormPrices,
     stock \in FormStocks, u \in ProductUuids :
    LET res == productFormRun(state, id, name, cost, price, stock, 2, u)
    IN  /\ op = NoOp
        /\ id = 0 => Len(state.products.items) < MaxProducts
        /\ state' = res.state
        /\ kvState' = IF res.saved THEN saveStateDoc(kvState, res.state) ELSE kvState
        /\ kvMeta' = IF res.saved THEN saveStateMeta(kvMeta, NoOptions, clock) ELSE kvMeta
        /\ drawn' = drawn + Drew(kvMeta, kvMeta')
        /\ op' = [NoOp EXCEPT !.name = "product", !.id = <<id>>, !.toast = res.toast]
        /\ pre' = Before
        /\ UNCHANGED <<kvSync, kvSnapIndex, kvSnaps, legacyRaw, remote, clock, tz, rows, pending, status,
                       phase, created, dailyCalls, loaded, lastSaved, legacyBillar, fnArgs, caches, site, event,
                       fnRes>>

\* The legacy keys of a browser in which the older app sold a product below
\* its cost.
SalesLegacy == [NoLegacy EXCEPT !.products = RawArray(<<LegacyProductAt("soda", <<8>>, <<5>>)>>)]

\* The ledger and the legacy keys when SpecSales starts: the soda in a browser
\* that never ran the older app, or the empty ledger btnClear leaves in one
\* that did.
SalesStarts == {<<Ledger(<<Soda>>, <<>>, <<>>, <<>>), NoLegacy>>, <<emptyState, SalesLegacy>>}

InitSales ==
  /\ \E start \in SalesStarts : state = start[1] /\ legacyBillar = start[2]
  /\ kvState = <<state>>
  /\ kvMeta = [EmptyMeta EXCEPT !.deviceId = <<"dev-A">>]
  /\ kvSync = NoConfig
  /\ legacyRaw = <<>>
  /\ clock = 0 /\ drawn = 0
  /\ IdleSync /\ IdleSnapshots /\ IdleRepo /\ IdlePure

NextSales == SaleSubmit \/ ProductSubmit \/ MigrateLegacy \/ Idle

SpecSales == InitSales /\ [][NextSales]_vars

\* The last sale of a ledger.
LastSale(s) == s.sales.items[Len(s.sales.items)]

\* C20: a sale of quantity q against a product with price p, cost c and
\* stock s >= q appends exactly one sale with unitPrice p, unitCost c, total
\* q*p and profit q*(p-c) and lowers that product's stock to s-q; with s < q the
\* sale is refused and the state stays as it was; a later submit of the
\* product form leaves every recorded sale as it was.
C20_SaleRecorded ==
  [][/\ (op.name = "none" /\ op'.name = "sale"
           /\ find(state.products.items, op'.id[1]) # 0) =>
          LET i == find(state.products.items, op'.id[1])
              p == state.products.items[i]
              q == op'.qty
          IN  IF p.stock >= q
              THEN /\ state'.sales.items = Append(state.sales.items, LastSale(state'))
                   /\ LastSale(state').productId = p.id
                   /\ LastSale(state').qty = q
                   /\ LastSale(state').unitPrice = p.price
                   /\ LastSale(state').unitCost = p.cost
                   /\ LastSale(state').total = q * p.price
                   /\ LastSale(state').profit = q * (p.price - p.cost)
                   /\ state'.products.items =
                        [state.products.items EXCEPT ![i].stock = p.stock - q]
                   /\ state'.expenses = state.expenses
                   /\ state'.tables = state.tables
                   /\ kvState' = <<state'>>
              ELSE state' = state /\ kvState' = kvState
     /\ (op.name = "none" /\ op'.name = "product") => state'.sales = state.sales]_vars

\* C20 witness: three units of the soda were sold for 24 with a profit of 9,
\* and the product's price was then raised from 8 to 10.
C20_Witness ==
  /\ op.name = "product" /\ op.toast = "Actualizado"
  /\ Len(state.sales.items) = 1
  /\ LastSale(state).qty = 3 /\ LastSale(state).total = 24 /\ LastSale(state).profit = 9
  /\ LastSale(state).unitPrice = 8 /\ LastSale(state).unitCost = 5
  /\ pre.state.products.items[1].price = 8
  /\ state.products.items[1].price = 10
  /\ state.products.items[1].id = LastSale(state).productId

(***************************************************************************)
(* Table sessions.  The handlers of the table form and of the table list   *)
(* are async functions: the part before `await saveState(state)` runs when *)
(* the event is delivered, the part after it (rerender, toast) when the    *)
(* save has completed.  Other events are delivered in between.  idbSet     *)
(* hands the state to the store right after the first part, so the         *)
(* document of a save is the live state that part left.  Amounts of money  *)
(* are in hundredths where the code rounds to two decimals.                *)
(***************************************************************************)
MinutesPerTick == 10    \* minutes between two clock readings of SpecTables
MaxTableClock == 3      \* last clock reading of SpecTables
MaxSessions == 2        \* table sessions the ledger of SpecTables holds at most
MaxPending == 2         \* handlers of SpecTables suspended at the same time
MaxPlayers == 3         \* players a session of SpecTables is raised to at most

\* Math.max(0, Math.floor((Date.now() - started.getTime()) / 60000))
elapsedMinutes(startAt, now) ==
  IF (now - startAt.ms) * MinutesPerTick < 0 THEN 0 ELSE (now - startAt.ms) * MinutesPerTick

\* The total of a session charged per table instead of per player.
tableTotalPerTable(mins, rate, players) == (mins * rate * 100 + 30) \div 60

\* Number(((mins / 60) * rate * players).toFixed(2)), in hundredths.
tableTotal(mins, rate, players) == (mins * rate * players * 100 + 30) \div 60

\* A session object has no endAt and no total until it is stopped.
Finished(t) == ~t.active /\ "endAt" \in DOMAIN t

\* The table-stop branch, lines 1297-1303.
stopSession(t, now) ==
  [f \in (DOMAIN t) \cup {"endAt", "total"} |->
     CASE f = "active" -> FALSE
       [] f = "endAt" -> nowISO(now)
       [] f = "total" -> tableTotal(elapsedMinutes(t.startAt, now), t.rate, t.players)
       [] OTHER -> t[f]]

\* The tablesTbody click handler up to its await, lines 1280-1303.
tablesClick(s, act, id, now) ==
  LET i == find(s.tables.items, id)
  IN  IF i = 0 THEN [state |-> s, saved |-> FALSE]
      ELSE IF act = "table-plus"
        THEN [state |-> [s EXCEPT !.tables.items[i].players = @ + 1], saved |-> TRUE]
      ELSE [state |-> [s EXCEPT !.tables.items[i] = stopSession(@, now)], saved |-> TRUE]

\* state.tables.find(t => t.active && t.table === table)
activeOn(items, table) == {i \in 1..Len(items) : items[i].active /\ items[i].table = table}

\* The tableForm submit handler up to its await, lines 1244-1273.
tableForm(s, table, players, rate, u, now) ==
  IF ~(rate > 0) THEN [state |-> s, saved |-> FALSE, toast |-> "Validacion"]
  ELSE IF activeOn(s.tables.items, table) # {}
    THEN [state |-> s, saved |-> FALSE, toast |-> "Mesa activa"]
  ELSE [state |-> [s EXCEPT !.tables.items =
                     Append(@, [id |-> u, table |-> table, players |-> players,
                                rate |-> rate, startAt |-> nowISO(now), active |-> TRUE])],
        saved |-> TRUE, toast |-> "Mesa iniciada"]

\* renderTables(state): one row for every active session.
renderTables(s) == {s.tables.items[i].id : i \in {k \in 1..Len(s.tables.items) :
                                                   s.tables.items[k].active}}

\* A handler suspended at `await saveState(state)`.
Suspended(name, doc) == [name |-> name, doc |-> doc]
Suspend(res, name) == IF res.saved THEN Append(pending, Suspended(name, res.state)) ELSE pending

FormTables == {1, 2}
FormRates == {0, 10}
FormPlayers == {2}
TableUuids == {31, 32}
TableActs == {"table-plus", "table-stop"}

TableSubmit ==
  \E table \in FormTables, players \in FormPlayers, rate \in FormRates, u \in TableUuids :
    LET res == tableForm(state, table, players, rate, u, clock)
    IN  /\ op = NoOp
        /\ Len(state.tables.items) < MaxSessions
        /\ Len(pending) < MaxPending
        /\ state' = res.state
        /\ pending' = Suspend(res, "table-start")
        /\ op' = [NoOp EXCEPT !.name = "table-start", !.id = <<table>>, !.toast = res.toast]
        /\ pre' = Before
        /\ UNCHANGED <<kvState, kvMeta, kvSync, kvSnapIndex, kvSnaps, legacyRaw, legacyBillar,
                       remote, clock, tz, status, phase, created, dailyCalls, loaded,
                       lastSaved, drawn, rows, fnArgs, caches, site, event, fnRes>>

\* Click on a button of a row that is on screen.
TableClick ==
  \E act \in TableActs, id \in rows :
    LET res == tablesClick(state, act, id, clock)
    IN  /\ op = NoOp
        /\ Len(pending) < MaxPending
        /\ \A i \in 1..Len(res.state.tables.items) :
             res.state.tables.items[i].players <= MaxPlayers
        /\ state' = res.state
        /\ pending' = Suspend(res, act)
        /\ op' = [NoOp EXCEPT !.name = act, !.id = <<id>>]
        /\ pre' = Before
        /\ UNCHANGED <<kvState, kvMeta, kvSync, kvSnapIndex, kvSnaps, legacyRaw, legacyBillar,
                       remote, clock, tz, status, phase, created, dailyCalls, loaded,
                       lastSaved, drawn, rows, fnArgs, caches, site, event, fnRes>>

\* The oldest pending save completes and its handler goes on: rerender().
SaveDone ==
  /\ pending # <<>>
  /\ kvState' = saveStateDoc(kvState, Head(pending).doc)
  /\ kvMeta' = saveStateMeta(kvMeta, NoOptions, clock)
  /\ drawn' = drawn + Drew(kvMeta, kvMeta')
  /\ rows' = renderTables(state)
  /\ pending' = Tail(pending)
  /\ UNCHANGED <<state, kvSync, kvSnapIndex, kvSnaps, legacyRaw, legacyBillar, remote, clock,
                 tz, status, phase, op, pre, created, dailyCalls, loaded, lastSaved, fnArgs, caches, site, event,
                 fnRes>>

TickTables ==
  /\ op = NoOp
  /\ clock < MaxTableClock
  /\ clock' = clock + 1
  /\ UNCHANGED <<state, kvState, kvMeta, kvSync, kvSnapIndex, kvSnaps, legacyRaw, legacyBillar,
                 remote, tz, status, phase, op, pre, created, dailyCalls, loaded, lastSaved,
                 drawn, rows, pending, fnArgs, caches, site, event, fnRes>>

InitTables ==
  /\ state = emptyState
  /\ kvState = <<state>>
  /\ kvMeta = [EmptyMeta EXCEPT !.deviceId = <<"dev-A">>]
  /\ kvSync = NoConfig
  /\ legacyRaw = <<>>
  /\ clock = 0 /\ drawn = 0 /\ legacyBillar = NoLegacy
  /\ IdleSync /\ IdleSnapshots /\ IdleRepo /\ IdlePure

NextTables == TableSubmit \/ TableClick \/ SaveDone \/ TickTables \/ Idle

SpecTables == InitTables /\ [][NextTables]_vars

\* C21: once a session is finished, its endAt, total and players stay as they
\* are and it does not become active again, whatever UI actions follow.
C21_FinishedIsFinal ==
  [][\A i \in 1..Len(state.tables.items) :
       Finished(state.tables.items[i]) =>
         /\ i <= Len(state'.tables.items)
         /\ Finished(state'.tables.items[i])
         /\ state'.tables.items[i].endAt = state.tables.items[i].endAt
         /\ state'.tables.items[i].total = state.tables.items[i].total
         /\ state'.tables.items[i].players = state.tables.items[i].players]_vars

\* The session a click on the row with that id acts on (0: none).
Clicked(s, id) == find(s.tables.items, id)

\* C22: stopping an active session after m whole minutes makes it inactive,
\* sets endAt to the time of the stop and total to (m/60) * rate * players
\* rounded to two decimals, with the rate and the players it has at the stop;
\* table 1 with 2 players at rate 10 stopped after 30 minutes costs 10.00.
C22_StopTotal ==
  [][(op.name = "none" /\ op'.name = "table-stop" /\ Clicked(state, op'.id[1]) # 0
        /\ state.tables.items[Clicked(state, op'.id[1])].active) =>
       LET i == Clicked(state, op'.id[1])
           t == state.tables.items[i]
           m == (clock - t.startAt.ms) * MinutesPerTick
           cents == state'.tables.items[i].total
       IN  /\ ~state'.tables.items[i].active
           /\ state'.tables.items[i].endAt = Iso(clock)
           /\ 60 * cents - 30 <= m * t.rate * t.players * 100
           /\ m * t.rate * t.players * 100 < 60 * cents + 30
           /\ (t.table = 1 /\ t.players = 2 /\ t.rate = 10 /\ m = 30) => cents = 1000
           /\ state'.tables.items[i].players = t.players
           /\ state'.tables.items[i].rate = t.rate]_vars

\* C22 witness: table 1 with 2 players at rate 10 was stopped 30 minutes after
\* its start and costs 10.00.
C22_Witness ==
  /\ op.name = "table-stop"
  /\ Clicked(pre.state, op.id[1]) # 0
  /\ pre.state.tables.items[Clicked(pre.state, op.id[1])].active
  /\ LET t == state.tables.items[Clicked(pre.state, op.id[1])]
     IN  /\ Finished(t) /\ t.table = 1 /\ t.players = 2 /\ t.rate = 10
         /\ t.endAt.ms - t.startAt.ms = 3
         /\ t.total = 1000

\* C23: in every reachable state at most one session per table number is
\* active.
C23_OneActivePerTable ==
  \A i, j \in 1..Len(state.tables.items) :
    (/\ state.tables.items[i].active /\ state.tables.items[j].active
     /\ state.tables.items[i].table = state.tables.items[j].table) => i = j

\* C24: in every reachable state every product has price >= cost,
\* stock >= 0 and stockMin >= 0.
C24_ProductInvariant ==
  \A i \in 1..Len(state.products.items) :
    /\ state.products.items[i].price >= state.products.items[i].cost
    /\ state.products.items[i].stock >= 0
    /\ state.products.items[i].stockMin >= 0

\* C25: in every reachable state no two products have the same id.
C25_UniqueProductIds ==
  \A i, j \in 1..Len(state.products.items) :
    state.products.items[i].id = state.products.items[j].id => i = j

-----------------------------------------------------------------------------
(* Import of a backup file *)

-----------------------------------------------------------------------------
(* Push and pull, one storage write at a time *)

\* btnPull, lines 1481-1485: the options the pull hands to saveState.
pullOptions(meta, rd, now) ==
  [updatedAt |-> IF Truthy(OrNull(rd.updatedAt)) THEN OrNull(rd.updatedAt) ELSE nowISO(now),
   updatedBy |-> IF rd.updatedBy # <<>> THEN rd.updatedBy ELSE meta.deviceId,
   source |-> <<"sync-pull">>]

\* A sync handler suspended at an await: what it has still to do ("put": the
\* PUT, "meta": saveState's metadata update, "mark": the lastSync... bookkeeping),
\* the document it pulled, the options it built, and when it started.
SuspendedSync(name, stage, doc, options, at) ==
  [name |-> name, stage |-> stage, doc |-> doc, options |-> options, at |-> at]

\* btnSyncPull click up to the write of the 'state' key (lines 1449-1480, 560).
\* A pull that stops before `state = remote.state` is the whole handler.
PullBegin ==
  \E g \in GetOutcomes, ok \in BOOLEAN :
    LET res == pullRun(g, ok, kvSync, state, kvState, kvMeta, remote, clock)
        goes == res.status = "Descargado OK"
    IN /\ phase = "ready"
       /\ op = NoOp
       /\ pending = <<>>
       /\ status' = IF goes THEN "Descargando..." ELSE res.status
       /\ state' = res.state
       /\ kvState' = res.kvState
       /\ pending' = IF goes
                     THEN <<SuspendedSync("pull", "meta", res.kvState,
                                          pullOptions(kvMeta, remote[1], clock), clock)>>
                     ELSE <<>>
       /\ op' = [NoOp EXCEPT !.name = "pull", !.get = res.get, !.asked = res.asked,
                             !.answer = res.answer]
       /\ pre' = Before
       /\ UNCHANGED <<kvMeta, kvSync, kvSnapIndex, kvSnaps, legacyRaw, remote, clock, tz, rows,
                      phase, created, dailyCalls, loaded, lastSaved, drawn, legacyBillar,
                      fnArgs, caches, site, event, fnRes>>

\* saveState, lines 563-569, inside the pull: the metadata read-modify-write.
PullSaveMeta ==
  /\ pending # <<>>
  /\ Head(pending).name = "pull" /\ Head(pending).stage = "meta"
  /\ kvMeta' = saveStateMeta(kvMeta, Head(pending).options, clock)
  /\ pending' = <<[Head(pending) EXCEPT !.stage = "mark"]>>
  /\ drawn' = drawn + Drew(kvMeta, kvMeta')
  /\ UNCHANGED <<state, kvState, kvSync, kvSnapIndex, kvSnaps, legacyRaw, remote, clock, tz, rows,
                 status, phase, op, pre, created, dailyCalls, loaded, lastSaved, legacyBillar,
                 fnArgs, caches, site, event, fnRes>>

\* btnSyncPull, lines 1487-1493: lastSyncPullAt, rerender, status.
PullMark ==
  /\ pending # <<>>
  /\ Head(pending).name = "pull" /\ Head(pending).stage = "mark"
  /\ kvMeta' = [kvMeta EXCEPT !.lastSyncPullAt = <<clock>>]
  /\ status' = "Descargado OK"
  /\ pending' = <<>>
  /\ UNCHANGED <<state, kvState, kvSync, kvSnapIndex, kvSnaps, legacyRaw, remote, clock, tz, rows,
                 phase, op, pre, created, dailyCalls, loaded, lastSaved, drawn, legacyBillar,
                 fnArgs, caches, site, event, fnRes>>

\* btnSyncPush click up to the call of pushRemoteSnapshot (lines 1402-1431):
\* the GET, the conflict check and the payload.  A push that stops before the
\* PUT is the whole handler.
PushGet ==
  \E g \in GetOutcomes, ok \in BOOLEAN :
    LET res == pushRun(g, ok, "ok", kvSync, state, kvMeta, remote, clock)
        goes == res.putSent
    IN /\ phase = "ready"
       /\ op = NoOp
       /\ pending = <<>>
       /\ status' = IF goes THEN "Subiendo..." ELSE res.status
       /\ kvMeta' = [res.kvMeta EXCEPT !.lastSyncPushAt = kvMeta.lastSyncPushAt]
       /\ pending' = IF goes
                     THEN <<SuspendedSync("push", "put", res.remote, NoOptions, clock)>>
                     ELSE <<>>
       /\ op' = [NoOp EXCEPT !.name = "push", !.get = res.get, !.asked = res.asked,
                             !.answer = res.answer]
       /\ pre' = Before
       /\ drawn' = drawn + Drew(kvMeta, kvMeta')
       /\ UNCHANGED <<state, kvState, kvSync, kvSnapIndex, kvSnaps, legacyRaw, remote, clock, tz,
                      rows, phase, created, dailyCalls, loaded, lastSaved, legacyBillar, fnArgs, caches, site, event,
                      fnRes>>

\* pushRemoteSnapshot called by btnSyncPush (line 1432): the PUT and its answer.
PushPut ==
  \E p \in PutOutcomes :
    LET w == pushRemoteSnapshot(p, remote, Head(pending).doc[1])
    IN /\ pending # <<>>
       /\ Head(pending).name = "push" /\ Head(pending).stage = "put"
       /\ remote' = w.file
       /\ status' = IF w.err THEN errorStatus(p) ELSE "Subiendo..."
       /\ pending' = IF w.err THEN <<>> ELSE <<[Head(pending) EXCEPT !.stage = "mark"]>>
       /\ op' = [op EXCEPT !.put = p, !.putSent = TRUE]
       /\ UNCHANGED <<state, kvState, kvMeta, kvSync, kvSnapIndex, kvSnaps, legacyRaw, clock, tz,
                      rows, phase, pre, created, dailyCalls, loaded, lastSaved, drawn,
                      legacyBillar, fnArgs, caches, site, event, fnRes>>

\* btnSyncPush, lines 1434-1439: lastSyncPushAt, status.
PushMark ==
  /\ pending # <<>>
  /\ Head(pending).name = "push" /\ Head(pending).stage = "mark"
  /\ kvMeta' = [kvMeta EXCEPT !.lastSyncPushAt = <<clock>>]
  /\ status' = "Subido OK"
  /\ pending' = <<>>
  /\ UNCHANGED <<state, kvState, kvSync, kvSnapIndex, kvSnaps, legacyRaw, remote, clock, tz, rows,
                 phase, op, pre, created, dailyCalls, loaded, lastSaved, drawn, legacyBillar,
                 fnArgs, caches, site, event, fnRes>>

\* The page is closed while a sync handler is suspended, and opened again: the
\* handler never resumes, and init loads the live state from the 'state' key.
Terminate ==
  /\ pending # <<>>
  /\ pending' = <<>>
  /\ state' = loadStateResult(kvState, legacyRaw)[1]
  /\ status' = ""
  /\ op' = [NoOp EXCEPT !.name = "terminate", !.get = Head(pending).name,
                        !.file = <<Head(pending)>>]
  /\ UNCHANGED <<kvState, kvMeta, kvSync, kvSnapIndex, kvSnaps, legacyRaw, remote, clock, tz, rows,
                 phase, pre, created, dailyCalls, loaded, lastSaved, drawn, legacyBillar,
                 fnArgs, caches, site, event, fnRes>>

\* Time passes, also while a handler is suspended.
TickSteps ==
  /\ clock < MaxClock
  /\ clock' = clock + 1
  /\ UNCHANGED <<state, kvState, kvMeta, kvSync, kvSnapIndex, kvSnaps, legacyRaw, remote,
                 tz, rows, pending, status, phase, op, pre, created, dailyCalls, loaded,
                 lastSaved, drawn, legacyBillar, fnArgs, caches, site, event, fnRes>>

\* The handler has returned (no write of it is outstanding).
IdleSteps == pending = <<>> /\ Idle

InitSteps ==
  /\ state \in SyncStates
  /\ kvState = <<state>>
  /\ kvMeta \in {[EmptyMeta EXCEPT !.deviceId = <<"dev-A">>, !.lastSnapshotDay = <<0>>],
                 [EmptyMeta EXCEPT !.deviceId = <<"dev-A">>, !.lastSnapshotDay = <<0>>,
                                   !.stateUpdatedAt = Iso(0),
                                   !.stateUpdatedBy = <<"dev-A">>,
                                   !.stateUpdatedSource = <<"local">>]}
  /\ kvSync = [url |-> "https://dav/f.json", auto |-> FALSE]
  /\ remote \in {<<>>} \cup {<<x>> : x \in RemoteDocs}
  /\ legacyRaw = <<>>
  /\ clock = 0 /\ drawn = 0 /\ legacyBillar = NoLegacy
  /\ status = ""
  /\ phase = "ready"
  /\ op = NoOp
  /\ pre = NoPre
  /\ IdleSnapshots /\ IdleRepo /\ IdlePure

NextSteps ==
  PullBegin \/ PullSaveMeta \/ PullMark \/ PushGet \/ PushPut \/ PushMark \/ Terminate
    \/ RemoteChange \/ TickSteps \/ IdleSteps

SpecSteps == InitSteps /\ [][NextSteps]_vars

\* The store after a pull that ran to its end.
PullComplete(h) ==
  /\ kvState = h.doc
  /\ kvMeta.stateUpdatedAt = h.options.updatedAt
  /\ kvMeta.stateUpdatedBy = h.options.updatedBy
  /\ kvMeta.stateUpdatedSource = h.options.source
  /\ \E t \in h.at..clock : kvMeta.lastSyncPullAt = <<t>>

\* The store after a push that ran to its end.
PushComplete(h) ==
  /\ kvState = pre.kvState
  /\ \E t \in h.at..clock : kvMeta = [pre.kvMeta EXCEPT !.lastSyncPushAt = <<t>>]

\* C27: when the application is terminated during a push or a pull, the
\* persisted store is either as it was before the operation or as the completed
\* operation leaves it (for a pull: the state document, stateUpdatedAt/By/Source
\* and lastSyncPullAt all updated).
C27_SyncAtomic ==
  op.name = "terminate" =>
    \/ kvState = pre.kvState /\ kvMeta = pre.kvMeta
    \/ op.get = "pull" /\ PullComplete(op.file[1])
    \/ op.get = "push" /\ PushComplete(op.file[1])

-----------------------------------------------------------------------------
(* Handlers and pending saves *)

\* C28: a handler that changes the live state or hands a new save to the store
\* starts only when no save of an earlier handler is still pending.
C28_RunToCompletion ==
  [][(state' # state \/ Len(pending') > Len(pending)) => pending = <<>>]_vars

-----------------------------------------------------------------------------
(* Order of the requests of a push *)

\* The remote file the push found is newer than the local state.
PushConflict ==
  pushNeedsConfirm(pushRemoteUpdatedAt(pre.remote), OrNull(pre.kvMeta.stateUpdatedAt))

\* C29: the PUT of a push is issued only after the GET of the same push has
\* returned and the conflict check has passed (no confirmation needed, or
\* confirmation granted), and lastSyncPushAt is written only after the PUT
\* returned a success status.
C29_PushOrder ==
  [][/\ (~op.putSent /\ op'.putSent) =>
          /\ op.name = "push" /\ op.get = "ok"
          /\ PushConflict => (op.asked /\ op.answer)
          /\ ~PushConflict => ~op.asked
     /\ (kvMeta'.lastSyncPushAt # kvMeta.lastSyncPushAt) =>
          /\ op.name = "push" /\ op.get = "ok"
          /\ op.putSent /\ op.put = "ok"]_vars

C29_Witness ==
  /\ op.name = "push" /\ op.get = "ok" /\ op.asked /\ op.answer
  /\ op.putSent /\ op.put = "ok"
  /\ pending = <<>>
  /\ status = "Subido OK"
  /\ kvMeta.lastSyncPushAt = <<clock>>
  /\ pre.kvMeta.lastSyncPushAt = <<>>
  /\ remote # pre.remote

-----------------------------------------------------------------------------
(* saveState: what it writes into the metadata record and what it leaves *)

\* C30: after saveState(state, options) completes without a storage fault,
\* stateUpdatedAt is options.updatedAt or else the current time, stateUpdatedBy
\* is options.updatedBy or else the local device id, stateUpdatedSource is
\* options.source or else 'local', and lastSnapshotDay, lastSyncPushAt,
\* lastSyncPullAt and the legacy-import flag are as before.
C30_SaveStateFrame ==
  (op.name = "save" /\ op.fault = "none") =>
    /\ kvMeta.stateUpdatedAt =
         IF op.options.updatedAt.kind = "iso" THEN op.options.updatedAt ELSE Iso(clock)
    /\ kvMeta.stateUpdatedBy =
         IF op.options.updatedBy # <<>> THEN op.options.updatedBy ELSE kvMeta.deviceId
    /\ kvMeta.deviceId # <<>>
    /\ pre.kvMeta.deviceId # <<>> => kvMeta.deviceId = pre.kvMeta.deviceId
    /\ kvMeta.stateUpdatedSource =
         IF op.options.source # <<>> THEN op.options.source ELSE <<"local">>
    /\ \A k \in {"lastSnapshotDay", "lastSyncPushAt", "lastSyncPullAt", "legacyBillarMigratedAt"} :
         kvMeta[k] = pre.kvMeta[k]

C30_Witness ==
  /\ op.name = "save" /\ op.fault = "none"
  /\ op.options = [updatedAt |-> Iso(0), updatedBy |-> <<"dev-B">>, source |-> <<"sync-pull">>]
  /\ clock = 1
  /\ kvMeta = [UsedMeta EXCEPT !.stateUpdatedAt = Iso(0), !.stateUpdatedBy = <<"dev-B">>,
                               !.stateUpdatedSource = <<"sync-pull">>]
  /\ pre.kvMeta.stateUpdatedSource = <<"local">>

-----------------------------------------------------------------------------
(* createSnapshot, one storage request at a time *)

MaxStepCalls == 2    \* createSnapshot calls explored by SpecSnap

\* store.put(value), line 117: the store keeps a copy of the value as it is
\* when the request is made; a part of it that is the live object is copied
\* as the live state is then.
putCopy(snap, live) == IF snap.state = LiveObject THEN [snap EXCEPT !.state = live] ELSE snap

\* A createSnapshot call suspended at an await: the request it waits for
\* ("body": line 313, "list": line 315, "index": line 326), its snapshot, the
\* index it read, and the live state as it was at the call.
SuspendedSnapshot(stage, snap, idx, live) ==
  [name |-> "snapshot", stage |-> stage, snap |-> snap, idx |-> idx, live |-> live]

\* Calls begun: those completed and those suspended.
SnapCalls == Len(created) + Len(pending)

\* Click on 'btnSnapshotNow' (lines 977-978) or ensureDailySnapshot (line 337):
\* createSnapshot runs to its first await (lines 305-313).
SnapshotCall ==
  \E reason \in {"manual", "auto-diario"} :
    /\ op = NoOp
    /\ SnapCalls < MaxStepCalls
    /\ pending' = Append(pending, SuspendedSnapshot("body", Snapshot(nowISO(clock), reason, state),
                                                    <<>>, state))
    /\ UNCHANGED <<state, kvState, kvMeta, kvSync, kvSnapIndex, kvSnaps, legacyRaw, remote, clock,
                   tz, rows, status, phase, op, pre, created, dailyCalls, loaded, lastSaved, drawn,
                   legacyBillar, fnArgs, caches, site, event, fnRes>>

\* The store completes the oldest outstanding request, and the call that
\* waited for it runs to its next await (lines 313-327): the body is stored;
\* the index is read and the entry put in front; the bodies trimmed are
\* deleted and the index is stored.
SnapshotStep ==
  /\ pending # <<>>
  /\ Head(pending).name = "snapshot"
  /\ LET h == Head(pending)
     IN CASE h.stage = "body" ->
               /\ kvSnaps' = [k \in (DOMAIN kvSnaps) \cup {h.snap.id} |->
                                IF k = h.snap.id THEN putCopy(h.snap, state) ELSE kvSnaps[k]]
               /\ pending' = Append(Tail(pending), [h EXCEPT !.stage = "list"])
               /\ UNCHANGED <<kvSnapIndex, created>>
          [] h.stage = "list" ->
               /\ pending' = Append(Tail(pending),
                                    [h EXCEPT !.stage = "index",
                                              !.idx = unshift(listSnapshots(kvSnapIndex), h.snap)])
               /\ UNCHANGED <<kvSnaps, kvSnapIndex, created>>
          [] OTHER ->
               /\ kvSnaps' = [k \in (DOMAIN kvSnaps) \ trimRemoved(h.idx) |-> kvSnaps[k]]
               /\ kvSnapIndex' = trimKept(h.idx)
               /\ created' = Append(created, h.snap)
               /\ pending' = Tail(pending)
  /\ UNCHANGED <<state, kvState, kvMeta, kvSync, legacyRaw, remote, clock, tz, rows, status, phase,
                 op, pre, dailyCalls, loaded, lastSaved, drawn, legacyBillar, fnArgs, caches, site, event, fnRes>>

\* A confirmed or declined restore of a listed snapshot, between the requests.
RestoreListed == Restore

NextSnap == SnapshotCall \/ SnapshotStep \/ Mutate \/ RestoreListed \/ Tick \/ Idle

SpecSnap == InitList /\ [][NextSnap]_vars

\* A step stores, replaces and deletes no snapshot body.
BodiesKept ==
  /\ DOMAIN kvSnaps' = DOMAIN kvSnaps
  /\ \A id \in DOMAIN kvSnaps : kvSnaps'[id] = kvSnaps[id]

\* C31: createSnapshot leaves the live state unchanged; the body it stores
\* holds the live state as it was at the call, whatever mutation follows; and
\* no mutation of the live state, after a snapshot or after a restore, changes
\* a stored snapshot body.
C31_NoAliasing ==
  [][/\ (~BodiesKept \/ kvSnapIndex' # kvSnapIndex \/ pending' # pending) =>
          (state' = state /\ kvState' = kvState)
     /\ (pending # <<>> /\ pending' # pending /\ Len(pending') = Len(pending)
           /\ Head(pending).stage = "body") =>
          kvSnaps'[Head(pending).snap.id].state = Head(pending).live
     /\ state' # state => BodiesKept]_vars

\* C31 witness: the live state was changed after the call and before the body
\* was stored, and the body holds the state of the call.
C31_Witness ==
  /\ pending # <<>>
  /\ Head(pending).stage = "list"
  /\ kvSnaps[Head(pending).snap.id].state = Head(pending).live
  /\ state # Head(pending).live

-----------------------------------------------------------------------------
(* Order of the snapshot index *)

\* C32: the persisted snapshot index is ordered newest first, its ids strictly
\* descending (the clock never goes backwards in the model).
C32_NewestFirst ==
  \A i, j \in 1..Len(kvSnapIndex) : i < j => kvSnapIndex[i].id.ms > kvSnapIndex[j].id.ms

-----------------------------------------------------------------------------
(* Interleaved createSnapshot calls *)

IndexIds == {kvSnapIndex[i].id : i \in 1..Len(kvSnapIndex)}

\* C35: every createSnapshot call that has completed has an entry for its
\* snapshot in the index (none is trimmed in the runs explored: fewer than
\* MAX_SNAPSHOTS calls are made), and no stored body is without an index
\* entry once no call is in flight.
C35_CompletedIsIndexed ==
  /\ \A i \in 1..Len(created) : created[i].id \in IndexIds
  /\ pending = <<>> => \A id \in DOMAIN kvSnaps : id \in IndexIds

-----------------------------------------------------------------------------
(* A local edit while a pull is in flight *)

\* The live state after the user's edit.
EditedStates == {Ledger(<<1>>, <<7>>, <<9>>, <<8>>)}

\* A handler suspended at an await: a pull waiting for its GET ("get"), or a
\* form handler whose saveState has written the 'state' key and has still to
\* update the metadata record ("meta"); `at` is when it started.
SuspendedAt(name, stage, at) == [name |-> name, stage |-> stage, at |-> at]

Without(seq, i) == SubSeq(seq, 1, i - 1) \o SubSeq(seq, i + 1, Len(seq))

Waiting(name) == \E i \in 1..Len(pending) : pending[i].name = name

\* btnSyncPull click, lines 1449-1457: the GET is sent.
PullSend ==
  /\ phase = "ready"
  /\ op = NoOp
  /\ ~Waiting("pull")
  /\ kvSync.url # ""
  /\ pending' = Append(pending, SuspendedAt("pull", "get", clock))
  /\ status' = "Descargando..."
  /\ UNCHANGED <<state, kvState, kvMeta, kvSync, kvSnapIndex, kvSnaps, legacyRaw, remote, clock, tz,
                 rows, phase, op, pre, created, dailyCalls, loaded, lastSaved, drawn, legacyBillar,
                 fnArgs, caches, site, event, fnRes>>

\* init, lines 1503-1506: the GET of the startup auto-sync is sent.  The form
\* handlers were bound earlier in init (lines 925-1500).
AutoSend ==
  /\ phase = "boot"
  /\ op = NoOp
  /\ ~Waiting("auto")
  /\ autoSyncRuns(kvSync, TRUE)
  /\ pending' = Append(pending, SuspendedAt("auto", "get", clock))
  /\ status' = "Auto-sync: revisando..."
  /\ UNCHANGED <<state, kvState, kvMeta, kvSync, kvSnapIndex, kvSnaps, legacyRaw, remote, clock, tz,
                 rows, phase, op, pre, created, dailyCalls, loaded, lastSaved, drawn, legacyBillar,
                 fnArgs, caches, site, event, fnRes>>

\* A form handler changes the live state and calls saveState, which writes the
\* 'state' key (line 560) and is suspended before its metadata update.
EditBegin ==
  \E s \in EditedStates :
    /\ op = NoOp
    /\ ~Waiting("edit")
    /\ s # state
    /\ state' = s
    /\ kvState' = saveStateDoc(kvState, s)
    /\ pending' = Append(pending, SuspendedAt("edit", "meta", clock))
    /\ UNCHANGED <<kvMeta, kvSync, kvSnapIndex, kvSnaps, legacyRaw, remote, clock, tz, rows, status,
                   phase, op, pre, created, dailyCalls, loaded, lastSaved, drawn, legacyBillar,
                   fnArgs, caches, site, event, fnRes>>

\* saveState, lines 563-569, of the form handler: the metadata update.
EditSaveMeta ==
  \E i \in 1..Len(pending) :
    /\ pending[i].name = "edit"
    /\ kvMeta' = saveStateMeta(kvMeta, NoOptions, clock)
    /\ pending' = Without(pending, i)
    /\ drawn' = drawn + Drew(kvMeta, kvMeta')
    /\ UNCHANGED <<state, kvState, kvSync, kvSnapIndex, kvSnaps, legacyRaw, remote, clock, tz, rows,
                   status, phase, op, pre, created, dailyCalls, loaded, lastSaved, legacyBillar,
                   fnArgs, caches, site, event, fnRes>>

\* The GET of the pull returns: the metadata record is read, the conflict
\* check made and the remote state installed and saved (lines 1457-1493).
PullGot ==
  \E i \in 1..Len(pending), g \in GetOutcomes, ok \in BOOLEAN :
    LET res == pullRun(g, ok, kvSync, state, kvState, kvMeta, remote, clock)
    IN /\ pending[i].name = "pull"
       /\ op = NoOp
       /\ pending' = Without(pending, i)
       /\ status' = res.status
       /\ state' = res.state
       /\ kvState' = res.kvState
       /\ kvMeta' = res.kvMeta
       /\ op' = [NoOp EXCEPT !.name = "pull", !.get = res.get, !.asked = res.asked,
                             !.answer = res.answer]
       /\ pre' = Before
       /\ drawn' = drawn + Drew(kvMeta, kvMeta')
       /\ UNCHANGED <<kvSync, kvSnapIndex, kvSnaps, legacyRaw, remote, clock, tz, rows, phase,
                      created, dailyCalls, loaded, lastSaved, legacyBillar, fnArgs, caches, site, event, fnRes>>

\* The GET of the auto-sync returns (lines 1506-1517).
AutoGot ==
  \E i \in 1..Len(pending), g \in GetOutcomes :
    LET res == autoSyncRun(g, TRUE, "none", kvSync, state, kvState, kvMeta, remote, clock)
    IN /\ pending[i].name = "auto"
       /\ op = NoOp
       /\ pending' = Without(pending, i)
       /\ phase' = "ready"
       /\ status' = res.status
       /\ state' = res.state
       /\ kvState' = res.kvState
       /\ kvMeta' = res.kvMeta
       /\ op' = [NoOp EXCEPT !.name = "auto", !.get = res.get, !.online = TRUE]
       /\ pre' = Before
       /\ drawn' = drawn + Drew(kvMeta, kvMeta')
       /\ UNCHANGED <<kvSync, kvSnapIndex, kvSnaps, legacyRaw, remote, clock, tz, rows, created,
                      dailyCalls, loaded, lastSaved, legacyBillar, fnArgs, caches, site, event, fnRes>>

InitRace ==
  /\ state \in SyncStates
  /\ kvState = <<state>>
  /\ kvMeta \in {[EmptyMeta EXCEPT !.deviceId = <<"dev-A">>, !.lastSnapshotDay = <<0>>],
                 [EmptyMeta EXCEPT !.deviceId = <<"dev-A">>, !.lastSnapshotDay = <<0>>,
                                   !.stateUpdatedAt = Iso(0),
                                   !.stateUpdatedBy = <<"dev-A">>,
                                   !.stateUpdatedSource = <<"local">>]}
  /\ kvSync = [url |-> "https://dav/f.json", auto |-> TRUE]
  /\ remote \in {<<>>} \cup {<<x>> : x \in RemoteDocs}
  /\ legacyRaw = <<>>
  /\ clock = 0 /\ drawn = 0 /\ legacyBillar = NoLegacy
  /\ status = ""
  /\ phase \in {"boot", "ready"}
  /\ op = NoOp
  /\ pre = NoPre
  /\ IdleSnapshots /\ IdleRepo /\ IdlePure

NextRace ==
  PullSend \/ AutoSend \/ EditBegin \/ EditSaveMeta \/ PullGot \/ AutoGot \/ TickSteps \/ Idle

SpecRace == InitRace /\ [][NextRace]_vars

\* When the live state was last edited locally: the start of the edit whose
\* metadata update is outstanding, else stateUpdatedAt.
LastEdit ==
  IF Waiting("edit")
  THEN Iso((CHOOSE e \in {pending[i] : i \in 1..Len(pending)} : e.name = "edit").at)
  ELSE kvMeta.stateUpdatedAt

LaterIso(a, b) == a.kind = "iso" /\ b.kind = "iso" /\ a.ms > b.ms

\* C33: a pull that asks no confirmation (a manual pull whose conflict check
\* passed, the startup auto-pull) does not replace a live state whose last
\* local edit is newer than the remote's updatedAt, also when the edit's
\* metadata update is still outstanding.
C33_NoSilentOverwrite ==
  [][(op.name = "none" /\ op'.name \in {"pull", "auto"} /\ ~op'.asked /\ state' # state) =>
       ~LaterIso(LastEdit, remote[1].updatedAt)]_vars

-----------------------------------------------------------------------------
(* Two read-modify-writes of the metadata record *)

\* A caller suspended between its getMeta and its setMeta, holding the
\* record it read.
SuspendedMeta(name, meta, at) == [name |-> name, meta |-> meta, at |-> at]

\* A form handler changes the live state and calls saveState: the 'state'
\* key is written and the metadata record read (lines 560-564).
SaveRead ==
  \E s \in LocalStates :
    /\ ~Waiting("save")
    /\ s # state
    /\ state' = s
    /\ kvState' = saveStateDoc(kvState, s)
    /\ pending' = Append(pending, SuspendedMeta("save", kvMeta, clock))
    /\ UNCHANGED <<kvMeta, kvSync, kvSnapIndex, kvSnaps, legacyRaw, remote, clock, tz, rows, status,
                   phase, op, pre, created, dailyCalls, loaded, lastSaved, drawn, legacyBillar,
                   fnArgs, caches, site, event, fnRes>>

\* saveState, lines 565-569: the record read is changed and written.
SaveWrite ==
  \E i \in 1..Len(pending) :
    /\ pending[i].name = "save"
    /\ kvMeta' = saveStateMeta(pending[i].meta, NoOptions, clock)
    /\ pending' = Without(pending, i)
    /\ drawn' = drawn + Drew(kvMeta, kvMeta')
    /\ UNCHANGED <<state, kvState, kvSync, kvSnapIndex, kvSnaps, legacyRaw, remote, clock, tz, rows,
                   status, phase, op, pre, created, dailyCalls, loaded, lastSaved, legacyBillar,
                   fnArgs, caches, site, event, fnRes>>

\* ensureDailySnapshot, lines 332-337: the metadata record is read, the day
\* compared, and the snapshot created.
DailyRead ==
  LET snap == Snapshot(nowISO(clock), "auto-diario", state)
  IN /\ ~Waiting("daily")
     /\ Len(created) < MaxListed
     /\ ensureDailySnapshotDue(state, kvMeta, clock)
     /\ kvSnaps' = createSnapshotBodies(kvSnaps, kvSnapIndex, snap)
     /\ kvSnapIndex' = createSnapshotIndex(kvSnapIndex, snap)
     /\ created' = Append(created, snap)
     /\ pending' = Append(pending, SuspendedMeta("daily", kvMeta, clock))
     /\ UNCHANGED <<state, kvState, kvMeta, kvSync, legacyRaw, remote, clock, tz, rows, status,
                    phase, op, pre, dailyCalls, loaded, lastSaved, drawn, legacyBillar, fnArgs, caches, site, event,
                    fnRes>>

\* ensureDailySnapshot, lines 338-339: the record read is changed and written.
DailyWrite ==
  \E i \in 1..Len(pending) :
    /\ pending[i].name = "daily"
    /\ kvMeta' = [pending[i].meta EXCEPT !.lastSnapshotDay = <<UtcDay(pending[i].at)>>]
    /\ pending' = Without(pending, i)
    /\ UNCHANGED <<state, kvState, kvSync, kvSnapIndex, kvSnaps, legacyRaw, remote, clock, tz, rows,
                   status, phase, op, pre, created, dailyCalls, loaded, lastSaved, drawn,
                   legacyBillar, fnArgs, caches, site, event, fnRes>>

NextMeta == SaveRead \/ SaveWrite \/ DailyRead \/ DailyWrite \/ TickSteps

SpecMeta == InitList /\ [][NextMeta]_vars

\* C34: a bookkeeping write of the metadata record leaves stateUpdatedAt,
\* stateUpdatedBy and stateUpdatedSource as the store holds them, and the
\* metadata write of a saveState leaves the bookkeeping fields as the store
\* holds them, whatever was written since the writer read the record.
C34_MetaFieldsKept ==
  [][\A i \in 1..Len(pending) :
       (pending' = Without(pending, i) /\ pending[i].name \in {"save", "daily"}) =>
         IF pending[i].name = "save"
         THEN \A k \in {"lastSnapshotDay", "lastSyncPushAt", "lastSyncPullAt",
                        "legacyBillarMigratedAt"} : kvMeta'[k] = kvMeta[k]
         ELSE \A k \in {"stateUpdatedAt", "stateUpdatedBy", "stateUpdatedSource"} :
                kvMeta'[k] = kvMeta[k]]_vars

-----------------------------------------------------------------------------
(* The requests of overlapping handlers reach the store in order *)

\* The store serves the transactions of one object store in the order they
\* were created: a request joins the end of the queue.  (First the queue with
\* the newest request served first.)
enqueueFirst(queue, request) == <<request>> \o queue

enqueue(queue, request) == Append(queue, request)

\* A handler changes the live state (a form or a row button changes it in
\* place; import, restore and pull replace it) and calls saveState in the same
\* synchronous stretch, awaited or not (lines 954, 1029, 1103, 1140, 1186, 1481).
Change ==
  \E s \in LocalStates, name \in {"form", "replace"} :
    /\ Len(pending) < MaxPending
    /\ s # state
    /\ state' = s
    /\ pending' = enqueue(pending, Suspended(name, s))
    /\ op' = [NoOp EXCEPT !.name = name, !.qty = Len(pending)]
    /\ UNCHANGED <<kvState, kvMeta, kvSync, kvSnapIndex, kvSnaps, legacyRaw, remote, clock, tz, rows,
                   status, phase, pre, created, dailyCalls, loaded, lastSaved, drawn, legacyBillar,
                   fnArgs, caches, site, event, fnRes>>

\* btnClear click, confirmed (lines 964-966): the live state is emptied and
\* idbClearAll requested.
ClearBegin ==
  /\ Len(pending) < MaxPending
  /\ drawn < MaxDraws
  /\ state' = emptyState
  /\ pending' = enqueue(pending, Suspended("clear", emptyState))
  /\ op' = [NoOp EXCEPT !.name = "clear", !.answer = TRUE, !.qty = Len(pending)]
  /\ UNCHANGED <<kvState, kvMeta, kvSync, kvSnapIndex, kvSnaps, legacyRaw, remote, clock, tz, rows,
                 status, phase, pre, created, dailyCalls, loaded, lastSaved, drawn, legacyBillar,
                 fnArgs, caches, site, event, fnRes>>

\* The store completes the oldest request.  After idbClearAll the clear handler
\* goes on to saveState(state) with the live state of that moment (lines
\* 967-970); a saveState writes the document handed to it and the metadata.
StoreDone ==
  /\ pending # <<>>
  /\ IF Head(pending).name = "clear"
     THEN /\ kvState' = <<>>
          /\ kvMeta' = EmptyMeta
          /\ kvSync' = NoConfig
          /\ kvSnapIndex' = <<>>
          /\ kvSnaps' = <<>>
          /\ legacyRaw' = <<>>
          /\ pending' = enqueue(Tail(pending), Suspended("clear-save", state))
     ELSE /\ kvState' = saveStateDoc(kvState, Head(pending).doc)
          /\ kvMeta' = saveStateMeta(kvMeta,
                                     IF Head(pending).name = "clear-save"
                                     THEN [NoOptions EXCEPT !.source = <<"clear">>]
                                     ELSE NoOptions, clock)
          /\ pending' = Tail(pending)
          /\ UNCHANGED <<kvSync, kvSnapIndex, kvSnaps, legacyRaw>>
  /\ drawn' = drawn + Drew(kvMeta, kvMeta')
  /\ UNCHANGED <<state, remote, clock, tz, rows, status, phase, op, pre, created, dailyCalls,
                 loaded, lastSaved, legacyBillar, fnArgs, caches, site, event, fnRes>>

NextPersist == Change \/ ClearBegin \/ StoreDone \/ TickSteps

SpecPersist == InitList /\ [][NextPersist]_vars

-----------------------------------------------------------------------------
(* A push right after a push *)

\* C37: once a push has succeeded, and before any local edit, the remote
\* document's updatedAt is not newer than the local stateUpdatedAt: the next
\* push would ask for no confirmation.
C37_RepushUnconfirmed ==
  (op.name = "push" /\ op.putSent /\ op.put = "ok") =>
    /\ ~isoNewerThan(remote[1].updatedAt, kvMeta.stateUpdatedAt)
    /\ ~pushNeedsConfirm(pushRemoteUpdatedAt(remote), OrNull(kvMeta.stateUpdatedAt))

-----------------------------------------------------------------------------
(* sw.js: the service worker's fetch listener *)

MaxVersion == 2

INDEX_URL == "./index.html"

PRECACHE_URLS == {"./index.html", "./assets/app.js"}

\* The sync file, served by the application's own origin or by another one.
SyncUrls == {"./remote.php/dav/ms_finanzas_sync.json",
             "https://TU-SERVIDOR/remote.php/dav/ms_finanzas_sync.json"}

Urls == PRECACHE_URLS \cup {"./?source=pwa"} \cup SyncUrls

Request(method, url, sameOrigin, mode, html) ==
  [method |-> method, url |-> url, sameOrigin |-> sameOrigin, mode |-> mode, html |-> html]

\* html: the request's accept header includes 'text/html'.
Requests ==
  { Request("GET", "./index.html", TRUE, "navigate", TRUE),
    Request("GET", "./?source=pwa", TRUE, "navigate", TRUE),
    Request("GET", "./index.html", TRUE, "cors", TRUE),
    Request("GET", "./assets/app.js", TRUE, "no-cors", FALSE),
    Request("GET", "./remote.php/dav/ms_finanzas_sync.json", TRUE, "cors", FALSE),
    Request("PUT", "./remote.php/dav/ms_finanzas_sync.json", TRUE, "cors", FALSE),
    Request("GET", "https://TU-SERVIDOR/remote.php/dav/ms_finanzas_sync.json", FALSE, "cors", FALSE),
    Request("PUT", "https://TU-SERVIDOR/remote.php/dav/ms_finanzas_sync.json", FALSE, "cors", FALSE) }

Networks == {"ok", "fail"}

Response(url, version) == [url |-> url, version |-> version]

\* fetch(req): the resource as the network serves it now, or a rejection.
fetchNetwork(req, net, served) ==
  IF net = "ok" THEN <<Response(req.url, served[req.url])>> ELSE <<>>

cachesMatch(cache, url) == cache[url]

cachePut(cache, url, fresh) == [cache EXCEPT ![url] = <<fresh>>]

Answer(intercepted, source, response, cache) ==
  [intercepted |-> intercepted, source |-> source, response |-> response, caches |-> cache]

\* The listener returns without respondWith: the browser fetches as usual.
notHandled(req, net, cache, served) ==
  Answer(FALSE, IF net = "ok" THEN "network" ELSE "none", fetchNetwork(req, net, served), cache)

networkFirst(req, net, cache, served) ==
  LET fresh == fetchNetwork(req, net, served)
      cached == cachesMatch(cache, req.url)
  IN  IF fresh # <<>> THEN Answer(TRUE, "network", fresh, cachePut(cache, req.url, fresh[1]))
      ELSE IF cached # <<>> THEN Answer(TRUE, "cache", cached, cache)
      ELSE Answer(TRUE, "index", cachesMatch(cache, INDEX_URL), cache)

cacheFirst(req, net, cache, served) ==
  LET cached == cachesMatch(cache, req.url)
      fresh == fetchNetwork(req, net, served)
  IN  IF cached # <<>> THEN Answer(TRUE, "cache", cached, cache)
      ELSE IF fresh # <<>> THEN Answer(TRUE, "network", fresh, cachePut(cache, req.url, fresh[1]))
      ELSE Answer(TRUE, "none", <<>>, cache)

onFetch(req, net, cache, served) ==
  IF req.method # "GET" THEN notHandled(req, net, cache, served)
  ELSE IF ~req.sameOrigin THEN notHandled(req, net, cache, served)
  ELSE IF req.mode = "navigate" \/ req.html THEN networkFirst(req, net, cache, served)
  ELSE cacheFirst(req, net, cache, served)

\* A request of a page the worker controls; a PUT that arrives replaces the
\* resource on its server.
FetchEvent ==
  \E req \in Requests, net \in Networks :
    LET written == req.method = "PUT" /\ net = "ok"
        served == IF written THEN [site EXCEPT ![req.url] = @ + 1] ELSE site
        r == onFetch(req, net, caches, served)
    IN  /\ written => site[req.url] < MaxVersion
        /\ site' = served
        /\ caches' = r.caches
        /\ event' = [request |-> req, network |-> net, intercepted |-> r.intercepted,
                     source |-> r.source, response |-> r.response]
        /\ UNCHANGED <<state, kvState, kvMeta, kvSync, kvSnapIndex, kvSnaps, legacyRaw, legacyBillar,
                       remote, clock, tz, status, phase, op, pre, created, dailyCalls, loaded,
                       lastSaved, drawn, rows, pending, fnArgs, fnRes>>

\* A new version of the application is published.
Publish ==
  \E url \in PRECACHE_URLS :
    /\ site[url] < MaxVersion
    /\ site' = [site EXCEPT ![url] = @ + 1]
    /\ UNCHANGED <<state, kvState, kvMeta, kvSync, kvSnapIndex, kvSnaps, legacyRaw, legacyBillar,
                   remote, clock, tz, status, phase, op, pre, created, dailyCalls, loaded,
                   lastSaved, drawn, rows, pending, caches, event, fnArgs, fnRes>>

\* The worker is installed: cache.addAll(PRECACHE_URLS) has stored the first version.
InitWorker ==
  /\ state = emptyState /\ kvState = <<>> /\ kvMeta = EmptyMeta /\ kvSync = NoConfig
  /\ legacyRaw = <<>> /\ legacyBillar = NoLegacy /\ clock = 0 /\ drawn = 0
  /\ IdleSync /\ IdleSnapshots /\ IdleRepo
  /\ fnArgs = <<>> /\ fnRes = <<>>
  /\ site = [u \in Urls |-> 0]
  /\ caches = [u \in Urls |-> IF u \in PRECACHE_URLS THEN <<Response(u, 0)>> ELSE <<>>]
  /\ event = NoEvent

NextWorker == FetchEvent \/ Publish

SpecWorker == InitWorker /\ [][NextWorker]_vars

Navigation(r) == r.mode = "navigate" \/ r.html

Handled(r) == r.method = "GET" /\ r.sameOrigin

FetchStep == event' # event \/ caches' # caches

NetworkFirstAnswer ==
  LET e == event'
      url == e.request.url
  IN  /\ e.intercepted
      /\ e.network = "ok" =>
           /\ e.source = "network" /\ e.response = <<Response(url, site'[url])>>
           /\ caches'[url] = e.response
      /\ e.network = "fail" =>
           /\ e.source # "network" /\ caches' = caches
           /\ e.response = IF caches[url] # <<>> THEN caches[url] ELSE caches[INDEX_URL]

CacheFirstAnswer ==
  LET e == event'
      url == e.request.url
  IN  /\ e.intercepted
      /\ caches[url] # <<>> => e.source = "cache" /\ e.response = caches[url] /\ caches' = caches
      /\ caches[url] = <<>> =>
           /\ e.source # "cache"
           /\ e.network = "ok" => e.response = <<Response(url, site'[url])>> /\ caches'[url] = e.response

NotIntercepted == ~event'.intercepted /\ caches' = caches /\ event'.source # "cache"

\* The listener's policy without the consequence drawn for the sync traffic.
FetchPolicy ==
  [][FetchStep =>
       /\ (Handled(event'.request) /\ Navigation(event'.request)) => NetworkFirstAnswer
       /\ (Handled(event'.request) /\ ~Navigation(event'.request)) => CacheFirstAnswer
       /\ ~Handled(event'.request) => NotIntercepted]_vars

\* C38: a same-origin GET for a page is answered network first (and cached),
\* from the cache or the cached index.html only when the network fails; any
\* other same-origin GET is answered cache first, else from the network and
\* cached; other requests are not intercepted; and no request for the sync
\* file is answered from, or stored in, the cache.
C38_FetchPolicy ==
  [][FetchStep =>
       /\ (Handled(event'.request) /\ Navigation(event'.request)) => NetworkFirstAnswer
       /\ (Handled(event'.request) /\ ~Navigation(event'.request)) => CacheFirstAnswer
       /\ ~Handled(event'.request) => NotIntercepted
       /\ event'.request.url \in SyncUrls =>
            event'.source # "cache" /\ caches'[event'.request.url] = <<>>]_vars
=============================================================================
